---- MODULE Spec2Model ----
(***************************************************************************)
(* A model of the cozo query engine's degree-centrality algorithm          *)
(* (src/src/algo/degree_centrality.rs), of its chain/path planner          *)
(* (src/src/algebra/op/from.rs), of its Value type with the value           *)
(* expression builder (src/src/relation/value.rs) and of the CozoScript    *)
(* front end (src/src/parse/cozoscript/query.rs).                          *)
(*                                                                         *)
(* Each component has its own variables and its own specification; a       *)
(* specification leaves the other components' variables parked.            *)
(***************************************************************************)
EXTENDS Integers, Sequences, FiniteSets, TLC

VARIABLES
    \* ---- DegreeCentrality::run ----
    dcPc,        \* position in run: "idle", "loop", "emit", "done"
    nrels,       \* rels.len() of the call (-1 before the call)
    iterated,    \* whether rels[0].iter(tx, stores) has been called
    consumed,    \* the tuples the input iterator has yielded so far
    counter,     \* the BTreeMap counter: key -> <<total, out, in>>
    pending,     \* what counter.into_iter() has still to yield
    outStore,    \* the calls out.put(tuple, rule_idx), in call order
    dcResult,    \* run's return value ("none" while running)
    cancelFlag,  \* the transaction's cancellation flag
    \* ---- parse_chain ----
    chainIn,     \* the chain pair handed to parse_chain
    chainOut,    \* what parse_chain returned
    \* ---- build_join_conditions ----
    joinIn,      \* the arguments of the call
    joinOut,     \* what the call returned
    \* ---- build_from_clause ----
    fPc,         \* position in build_from_clause: "start", "loop", "done"
    fPrev,       \* whether prev is Some(..)
    fTaken,      \* how many pairs have been taken from args
    fRet,        \* the accumulated plan ret
    fLast,       \* the latest build_chain call: its argument, its result
                 \* and the plan accumulated before it
    fBuilds,     \* how many TableScan::build calls were made
    fResult,     \* build_from_clause's return value
    uuidNext,    \* the state of the uuid generator
    \* ---- Value: Ord, Display, is_evaluated ----
    vOp,         \* which operation was applied: "none", "cmp", "fmt", ...
    vA,          \* its first argument
    vB,          \* its second argument (cmp only)
    vRes,        \* its result
    \* ---- the two expression builders ----
    eIn,         \* the expr pair handed to both builders
    eValue,      \* what Value::from_pair returned
    eJson,       \* what build_expr returned
    \* ---- parsed_to_json ----
    qPc,         \* position in parsed_to_json: "loop", "done"
    qSeen,       \* the statements taken from src so far
    qMap,        \* ret_map, rules and const_rules
    qResult,     \* parsed_to_json's return value
    \* ---- parse_pull_arg ----
    pIn,         \* the pull_arg pair of the call
    pOut         \* what the call returned

dcVars == <<dcPc, nrels, iterated, consumed, counter, pending, outStore,
            dcResult, cancelFlag>>

chainVars == <<chainIn, chainOut>>

joinVars == <<joinIn, joinOut>>

fromVars == <<fPc, fPrev, fTaken, fRet, fLast, fBuilds, fResult, uuidNext>>

valVars == <<vOp, vA, vB, vRes>>

exprVars == <<eIn, eValue, eJson>>

queryVars == <<qPc, qSeen, qMap, qResult>>

pullVars == <<pIn, pOut>>

langVars == <<valVars, exprVars, queryVars, pullVars>>

vars == <<dcVars, chainVars, joinVars, fromVars, langVars>>

----------------------------------------------------------------------------
(* Bounds *)

NumValues == 3      \* DataValues 1..NumValues, ordered as the integers
MaxTuples == 3      \* longest input relation
MaxRels   == 2      \* largest rels.len()
MaxChainLen == 3    \* most elements of a chain
MaxChains == 3      \* most chains of a From clause
MaxKeys   == 2      \* most keys of a node table
MaxNum    == 2      \* largest magnitude of a small number payload
BigNum    == 120    \* a number payload of several digits
MaxTextLen == 2     \* longest Text payload
MaxListLen == 2     \* longest List, most entries of a Dict
MaxMods   == 2      \* most modifiers of a pull arg
MaxStmts  == 3      \* most statements of a script

----------------------------------------------------------------------------
(* Helpers *)

Range(s) == {s[i] : i \in DOMAIN s}

Min(S) == CHOOSE m \in S : \A o \in S : m <= o

Max(S) == CHOOSE m \in S : \A o \in S : m >= o

\* the element of a one-element set; {e(x) : x \in {v}} is e with v
\* computed once and named x
Only(S) == CHOOSE x \in S : TRUE

RECURSIVE SumOver(_, _, _)
\* the sum of f[k][idx] over the keys k of S
SumOver(f, S, idx) ==
    IF S = {} THEN 0
    ELSE LET k == CHOOSE e \in S : TRUE
         IN  f[k][idx] + SumOver(f, S \ {k}, idx)

----------------------------------------------------------------------------
(* DegreeCentrality *)

Values == 1..NumValues

\* The tuples an input relation can hold: too short (1 field), an edge
\* (from, to), and an edge followed by a third field (one wide tuple per
\* source value: to its successor, with the greatest value as third field).
ShortTuples == {<<v>> : v \in Values}
EdgeTuples  == {<<a, b>> : a \in Values, b \in Values}
WideTuples  == {<<a, (a % NumValues) + 1, NumValues>> : a \in Values}
InputTuples == ShortTuples \cup EdgeTuples \cup WideTuples

arity == 4

EmptyCounter == [k \in {} |-> <<0, 0, 0>>]

\* ensure!(rels.len() == 1, ..)
\* variant: accepts any non-empty list of relations
RelsOkAtLeastOne(n) == n >= 1

RelsOk(n) == n = 1

\* ensure!(tuple.0.len() >= 2, ..)
TupleOk(t) == Len(t) >= 2

\* counter.entry(k).or_default()
Entry(c, k) == IF k \in DOMAIN c THEN c ELSE c @@ (k :> <<0, 0, 0>>)

\* let (from_total, from_out, _) = ..; *from_total += 1; *from_out += 1;
BumpFrom(c, k) ==
    LET e == Entry(c, k)
    IN  [e EXCEPT ![k] = <<@[1] + 1, @[2] + 1, @[3]>>]

\* variant: the to side without its total
BumpToNoTotal(c, k) ==
    LET e == Entry(c, k)
    IN  [e EXCEPT ![k] = <<@[1], @[2], @[3] + 1>>]

\* let (to_total, _, to_in) = ..; *to_total += 1; *to_in += 1;
BumpTo(c, k) ==
    LET e == Entry(c, k)
    IN  [e EXCEPT ![k] = <<@[1] + 1, @[2], @[3] + 1>>]

\* variant: a third field counted as a second to
CountTupleAllFields(c, t) ==
    LET c2 == BumpTo(BumpFrom(c, t[1]), t[2])
    IN  IF Len(t) > 2 THEN BumpTo(c2, t[3]) ELSE c2

\* the body of the for loop after the width check: from = tuple.0[0],
\* to = tuple.0[1]
CountTuple(c, t) == BumpTo(BumpFrom(c, t[1]), t[2])

\* variant: the greatest key first
LastKey(c) == Max(DOMAIN c)

\* the key counter.into_iter() yields next: the least one
FirstKey(c) == Min(DOMAIN c)

\* Tuple(vec![k, total_d as i64, out_d as i64, in_d as i64]); out.put(tuple, 0)
PutCall(k, e) == [tuple |-> <<k, e[1], e[2], e[3]>>, rule_idx |-> 0]

\* What the input iterator hands to the for loop on its next pull, having
\* yielded n tuples: the next tuple, a storage error, or the end of the
\* relation; once the transaction is cancelled, the Cancelled error.
IterYield(flag, n) ==
    IF flag
    THEN {[kind |-> "err", tuple |-> <<>>, err |-> "Cancelled"]}
    ELSE {[kind |-> "tuple", tuple |-> t, err |-> ""] :
              t \in IF n < MaxTuples THEN InputTuples ELSE {}}
         \cup {[kind |-> "err", tuple |-> <<>>, err |-> "StorageError"],
               [kind |-> "end", tuple |-> <<>>, err |-> ""]}

DCInit ==
    /\ dcPc = "idle"
    /\ nrels = -1
    /\ iterated = FALSE
    /\ consumed = <<>>
    /\ counter = EmptyCounter
    /\ pending = EmptyCounter
    /\ outStore = <<>>
    /\ dcResult = "none"
    /\ cancelFlag = FALSE

\* run is called with n relations: the ensure! on rels.len(), then
\* rels[0].iter(tx, stores)?, which may fail
DCBegin ==
    /\ dcPc = "idle"
    /\ \E n \in 0..MaxRels :
        /\ nrels' = n
        /\ IF ~RelsOk(n)
           THEN /\ dcPc' = "done"
                /\ dcResult' = "RelCount"
                /\ iterated' = FALSE
           ELSE /\ iterated' = TRUE
                /\ \E opened \in BOOLEAN :
                     IF opened
                     THEN dcPc' = "loop" /\ dcResult' = "none"
                     ELSE dcPc' = "done" /\ dcResult' = "StorageError"
    /\ UNCHANGED <<consumed, counter, pending, outStore, cancelFlag>>

\* one turn of `for tuple in it`: pull, `tuple?`, the width check, the two
\* counter updates; the end of the relation starts counter.into_iter()
DCNext ==
    /\ dcPc = "loop"
    /\ \E y \in IterYield(cancelFlag, Len(consumed)) :
         CASE y.kind = "err" ->
                /\ dcPc' = "done"
                /\ dcResult' = y.err
                /\ UNCHANGED <<consumed, counter, pending>>
           [] y.kind = "end" ->
                /\ dcPc' = "emit"
                /\ pending' = counter
                /\ UNCHANGED <<consumed, counter, dcResult>>
           [] y.kind = "tuple" ->
                /\ consumed' = Append(consumed, y.tuple)
                /\ IF ~TupleOk(y.tuple)
                   THEN /\ dcPc' = "done"
                        /\ dcResult' = "TupleWidth"
                        /\ UNCHANGED counter
                   ELSE /\ counter' = CountTuple(counter, y.tuple)
                        /\ UNCHANGED <<dcPc, dcResult>>
                /\ UNCHANGED pending
    /\ UNCHANGED <<nrels, iterated, outStore, cancelFlag>>

\* one turn of `for (k, (total_d, out_d, in_d)) in counter.into_iter()`
DCEmit ==
    /\ dcPc = "emit"
    /\ pending # EmptyCounter
    /\ LET k == FirstKey(pending)
       IN  /\ outStore' = Append(outStore, PutCall(k, pending[k]))
           /\ pending' = [j \in DOMAIN pending \ {k} |-> pending[j]]
    /\ UNCHANGED <<dcPc, nrels, iterated, consumed, counter, dcResult,
                   cancelFlag>>

\* variant: the cancellation is looked at once more before returning
RunResultChecked(flag) == IF flag THEN "Cancelled" ELSE "Ok"

\* what run returns after its second loop: Ok(()), whatever the flag
RunResult(flag) == "Ok"

\* Ok(())
DCReturn ==
    /\ dcPc = "emit"
    /\ pending = EmptyCounter
    /\ dcPc' = "done"
    /\ dcResult' = RunResult(cancelFlag)
    /\ UNCHANGED <<nrels, iterated, consumed, counter, pending, outStore,
                   cancelFlag>>

\* another thread cancels the transaction while run is in flight
Cancel ==
    /\ dcPc \in {"loop", "emit"}
    /\ ~cancelFlag
    /\ cancelFlag' = TRUE
    /\ UNCHANGED <<dcPc, nrels, iterated, consumed, counter, pending,
                   outStore, dcResult>>


----------------------------------------------------------------------------
(* DegreeCentrality: properties *)

\* how often v is field 0 (from) of an input tuple, with multiplicity
FromCount(v) ==
    Cardinality({i \in DOMAIN consumed : consumed[i][1] = v})

\* how often v is field 1 (to) of an input tuple, with multiplicity
ToCount(v) ==
    Cardinality({i \in DOMAIN consumed :
                    Len(consumed[i]) >= 2 /\ consumed[i][2] = v})

\* the values that occur as field 0 or field 1 of some input tuple
InputValues == {v \in Values : FromCount(v) + ToCount(v) > 0}

AllWide == \A i \in DOMAIN consumed : Len(consumed[i]) >= 2

PutKeys == {outStore[i].tuple[1] : i \in DOMAIN outStore}

\* C1: run over exactly one relation whose tuples all have at least 2
\* fields fails only if iterating fails, and when it returns Ok it has put,
\* for every value v in field 0 or 1 of an input tuple, the tuple
\* (v, total, out, in): out = number of tuples with field 0 = v, in = number
\* with field 1 = v (both with multiplicity), total = out + in; fields
\* beyond the second do not count, a self-loop counts in both.
C1_DegreeOutput ==
    (dcPc = "done" /\ nrels = 1 /\ AllWide) =>
        /\ dcResult \in {"Ok", "StorageError", "Cancelled"}
        /\ dcResult = "Ok" =>
             \A v \in InputValues :
                 PutCall(v, <<FromCount(v) + ToCount(v), FromCount(v),
                              ToCount(v)>>) \in Range(outStore)

\* C1 witness: a successful run over three tuples with a self-loop and a
\* tuple of three fields.
C1_Witness ==
    /\ dcPc = "done"
    /\ dcResult = "Ok"
    /\ Len(consumed) = 3
    /\ \E i \in DOMAIN consumed : consumed[i][1] = consumed[i][2]
    /\ \E i \in DOMAIN consumed : Len(consumed[i]) = 3

\* the input tuples the loop has counted
Processed == Cardinality({i \in DOMAIN consumed : Len(consumed[i]) >= 2})

\* C2: degree centrality law: after any prefix of the input every key of
\* the counter has total = out + in, and the out counts and the in counts
\* both sum to the number of tuples processed.
C2_DegreeLaw ==
    /\ \A k \in DOMAIN counter : counter[k][1] = counter[k][2] + counter[k][3]
    /\ SumOver(counter, DOMAIN counter, 2) = Processed
    /\ SumOver(counter, DOMAIN counter, 3) = Processed

\* C2 witness: in the middle of the input, two tuples counted over at
\* least two keys.
C2_Witness ==
    /\ dcPc = "loop"
    /\ Processed = 2
    /\ Cardinality(DOMAIN counter) >= 2

\* C3: out.put is called with rule index 0 and a tuple of width 4 (the
\* arity), only for values of the input, in strictly ascending key order
\* (so never twice for a key), and on success once for every key.
C3_PutOncePerKeyAscending ==
    /\ \A i \in DOMAIN outStore :
          /\ outStore[i].rule_idx = 0
          /\ Len(outStore[i].tuple) = 4
          /\ Len(outStore[i].tuple) = arity
          /\ outStore[i].tuple[1] \in InputValues
    /\ \A i, j \in DOMAIN outStore :
          i < j => outStore[i].tuple[1] < outStore[j].tuple[1]
    /\ (dcPc = "done" /\ dcResult = "Ok") => PutKeys = InputValues

\* C3 witness: a successful run that put three keys, one of which occurs
\* in more than one input tuple.
C3_Witness ==
    /\ dcPc = "done"
    /\ dcResult = "Ok"
    /\ Len(outStore) = 3
    /\ \E v \in Values : FromCount(v) + ToCount(v) >= 2

\* C4: run fails when rels.len() is not 1, without ever iterating the
\* input, and fails at once when the input yields a tuple of fewer than 2
\* fields.
C4_MalformedInputFails ==
    /\ nrels \notin {-1, 1} =>
          /\ dcPc = "done"
          /\ dcResult \notin {"Ok", "none"}
          /\ ~iterated
          /\ consumed = <<>>
    /\ (\E i \in DOMAIN consumed : Len(consumed[i]) < 2) =>
          /\ dcPc = "done"
          /\ dcResult \notin {"Ok", "none"}

\* C4 witness: the second tuple of the input is too short.
C4_Witness ==
    /\ dcPc = "done"
    /\ Len(consumed) = 2
    /\ Len(consumed[2]) < 2
    /\ dcResult = "TupleWidth"

\* C5: once the cancellation flag is set during a run, the run stops
\* instead of emitting: no out.put follows the setting of the flag. (The
\* flag is only ever set while run is in flight.)
C5_CancelStopsRun ==
    [][cancelFlag => outStore' = outStore]_vars

----------------------------------------------------------------------------
(* Chain/path planner: the token tree handed to the planner *)

NoIdent == <<>>

\* a node_part pair: an optional ident, then the table name and the assocs
NodePair(ident, target) ==
    [rule |-> "node_part", src |-> <<>>, dst |-> <<>>, ident |-> ident,
     target |-> target, assocs |-> <<>>]

\* an edge_part pair: the source marker's children, the middle (shaped like
\* a node part), the destination marker's children
EdgePair(src, dst, ident, target) ==
    [rule |-> "edge_part", src |-> src, dst |-> dst, ident |-> ident,
     target |-> target, assocs |-> <<>>]

ChainPair(parts) == [rule |-> "chain", parts |-> parts]

\* the children an edge marker can have: an outer marker, an arrow, both
Markers ==
    {<<>>, <<"bwd_marker">>, <<"fwd_marker">>, <<"outer_marker">>,
     <<"outer_marker", "bwd_marker">>, <<"fwd_marker", "outer_marker">>}

RECURSIVE AltSeqs(_, _, _)
\* the sequences of n elements taken in turn from first and second
AltSeqs(first, second, n) ==
    IF n = 0 THEN {<<>>}
    ELSE {<<x>> \o r : x \in first, r \in AltSeqs(second, first, n - 1)}

\* the schema catalog behind ctx: node tables N0, N1, .. with 0, 1, .. keys
\* and the edge table K
NodeName(n) == "N" \o ToString(n)

KeyList(n) == [i \in 1..n |-> "k" \o ToString(i)]

Catalog ==
    [t \in {NodeName(n) : n \in 0..MaxKeys} \cup {"K"} |->
        IF t = "K"
        THEN [kind |-> "edge", keys |-> <<>>]
        ELSE [kind |-> "node",
              keys |-> KeyList(CHOOSE n \in 0..MaxKeys : NodeName(n) = t)]]

----------------------------------------------------------------------------
(* parse_chain *)

\* fn parse_edge_marker(pair) -> (arrow_mark, outer_mark)
parse_edge_marker(pair) ==
    [arrow |-> \E i \in DOMAIN pair : pair[i] \in {"bwd_marker", "fwd_marker"},
     outer |-> \E i \in DOMAIN pair : pair[i] = "outer_marker"]

\* fn parse_node_part(pair) -> (binding, table_name, assoc_names); u is the
\* state of the uuid generator, which names an element without ident
parse_node_part(pair, u) ==
    [binding |-> IF pair.ident # NoIdent THEN pair.ident[1]
                 ELSE "@" \o ToString(u),
     target  |-> pair.target,
     assocs  |-> Range(pair.assocs),
     uuid    |-> IF pair.ident # NoIdent THEN u ELSE u + 1]

\* variant: Fwd and Bwd exchanged
EdgeDirSwapped(is_fwd, is_bwd) ==
    IF (is_fwd /\ is_bwd) \/ (~is_fwd /\ ~is_bwd) THEN "Bidi"
    ELSE IF is_fwd THEN "Bwd" ELSE "Fwd"

\* let dir = if (is_fwd && is_bwd) || (!is_fwd && !is_bwd) { Bidi } ..
EdgeDir(is_fwd, is_bwd) ==
    IF (is_fwd /\ is_bwd) \/ (~is_fwd /\ ~is_bwd) THEN "Bidi"
    ELSE IF is_fwd THEN "Fwd" ELSE "Bwd"

\* variant: Left and Right exchanged
EdgeJoinSwapped(src_outer, dst_outer) ==
    CASE src_outer /\ dst_outer   -> [ok |-> FALSE, join |-> "None"]
      [] src_outer /\ ~dst_outer  -> [ok |-> TRUE, join |-> "Left"]
      [] ~src_outer /\ dst_outer  -> [ok |-> TRUE, join |-> "Right"]
      [] ~src_outer /\ ~dst_outer -> [ok |-> TRUE, join |-> "Inner"]

\* let join = match (src_outer, dst_outer) { .. }; not ok: the early return
\* of NoFullOuterInChain
EdgeJoin(src_outer, dst_outer) ==
    CASE src_outer /\ dst_outer   -> [ok |-> FALSE, join |-> "None"]
      [] src_outer /\ ~dst_outer  -> [ok |-> TRUE, join |-> "Right"]
      [] ~src_outer /\ dst_outer  -> [ok |-> TRUE, join |-> "Left"]
      [] ~src_outer /\ ~dst_outer -> [ok |-> TRUE, join |-> "Inner"]

\* struct ChainEl { part, binding, target, assocs }
ChainEl(kind, dir, join, n) ==
    [part    |-> [kind |-> kind, dir |-> dir, join |-> join],
     binding |-> n.binding,
     target  |-> n.target,
     assocs  |-> n.assocs]

RECURSIVE ParseParts(_, _, _, _)
\* the loop `for pair in pair.into_inner()` of parse_chain from its i-th
\* turn on
ParseParts(parts, i, collected, u) ==
    IF i > Len(parts)
    THEN [tag |-> "Ok", err |-> "", els |-> collected, uuid |-> u]
    ELSE
      LET pair == parts[i]
          n    == parse_node_part(pair, u)
      IN  IF pair.rule = "node_part"
          THEN ParseParts(parts, i + 1,
                          Append(collected, ChainEl("Node", "None", "None", n)),
                          n.uuid)
          ELSE
            LET src  == parse_edge_marker(pair.src)
                dst  == parse_edge_marker(pair.dst)
                dir  == EdgeDir(dst.arrow, src.arrow)
                join == EdgeJoin(src.outer, dst.outer)
            IN  IF ~join.ok
                THEN [tag |-> "Err", err |-> "NoFullOuterInChain",
                      els |-> <<>>, uuid |-> n.uuid]
                ELSE ParseParts(parts, i + 1,
                                Append(collected,
                                       ChainEl("Edge", dir, join.join, n)),
                                n.uuid)

\* pub(crate) fn parse_chain(pair: Pair) -> Result<Vec<ChainEl>>
parse_chain(pair, u) ==
    IF pair.rule # "chain"
    THEN [tag |-> "Err", err |-> "AssertRule", els |-> <<>>, uuid |-> u]
    ELSE ParseParts(pair.parts, 1, <<>>, u)

----------------------------------------------------------------------------
(* build_chain *)

NoPlan ==
    [op |-> "None", binding |-> "", target |-> "", assocs |-> {},
     left |-> <<>>, right |-> <<>>]

TableScan(el) ==
    [op |-> "TableScan", binding |-> el.binding, target |-> el.target,
     assocs |-> el.assocs, left |-> <<>>, right |-> <<>>]

\* RaBox::Cartesian(Box::new(CartesianJoin { left, right }))
Cartesian(l, r) ==
    [op |-> "Cartesian", binding |-> "", target |-> "", assocs |-> {},
     left |-> l, right |-> r]

\* TableScan::build(ctx, el, true): the scan of el's table, or UnknownTable
TableScanBuild(ctx, el) ==
    [ok |-> el.target \in DOMAIN ctx, scan |-> TableScan(el)]

RECURSIVE Bindings(_)
\* plan.bindings(): the names the plan publishes upward
Bindings(plan) ==
    CASE plan.op = "TableScan" -> {plan.binding}
      [] plan.op = "Cartesian" -> Bindings(plan.left) \cup Bindings(plan.right)
      [] OTHER -> {}

RECURSIVE BuildScans(_, _, _, _, _)
\* chain.iter().map(|el| ..).collect::<Result<Vec<_>>>() from the i-th
\* element on; builds counts the calls of TableScan::build
BuildScans(ctx, els, i, seen, scans) ==
    IF i > Len(els)
    THEN [tag |-> "Ok", err |-> "", name |-> "", scans |-> scans,
          builds |-> Len(els)]
    ELSE
      LET el == els[i]
          ts == TableScanBuild(ctx, el)
      IN  IF ~ts.ok
          THEN [tag |-> "Err", err |-> "UnknownTable", name |-> el.target,
                scans |-> <<>>, builds |-> i]
          ELSE IF el.binding \in seen
          THEN [tag |-> "Err", err |-> "DuplicateBinding",
                name |-> el.binding, scans |-> <<>>, builds |-> i]
          ELSE BuildScans(ctx, els, i + 1, seen \cup {el.binding},
                          Append(scans, ts.scan))

ChainResult(tag, err, name, plan, u, builds) ==
    [tag |-> tag, err |-> err, name |-> name, plan |-> plan, uuid |-> u,
     builds |-> builds]

\* pub(crate) fn build_chain(ctx, arg: Pair) -> Result<RaBox>; arg is the
\* sequence of arg's inner pairs; tag "Panic" is the todo!() of line 71
build_chain(ctx, arg, u) ==
    IF arg = <<>>
    THEN ChainResult("Err", "NotEnoughArguments", "From", NoPlan, u, 0)
    ELSE
      LET chain == parse_chain(arg[1], u)
          sc    == BuildScans(ctx, chain.els, 1, {}, <<>>)
      IN  IF chain.tag # "Ok"
          THEN ChainResult("Err", chain.err, "", NoPlan, chain.uuid, 0)
          ELSE IF sc.tag # "Ok"
          THEN ChainResult("Err", sc.err, sc.name, NoPlan, chain.uuid,
                           sc.builds)
          ELSE IF sc.scans = <<>>
          THEN ChainResult("Err", "NotEnoughArguments", "From", NoPlan,
                           chain.uuid, sc.builds)
          ELSE IF Len(sc.scans) = 1
          THEN ChainResult("Ok", "", "", sc.scans[1], chain.uuid, sc.builds)
          ELSE ChainResult("Panic", "todo", "", NoPlan, chain.uuid, sc.builds)

----------------------------------------------------------------------------
(* build_join_conditions *)

\* variant: the edge -> node prefixes not swapped
DirPrefixNoSwap(node_to_edge, dir) ==
    CASE dir = "Fwd" -> "_src_"
      [] dir = "Bwd" -> "_dst_"
      [] OTHER -> "todo"

\* let dir_prefix = if node_to_edge { match dir { .. } } else { .. };
\* "todo" is the todo!() of the Bidi arms
DirPrefix(node_to_edge, dir) ==
    IF node_to_edge
    THEN CASE dir = "Fwd" -> "_src_"
           [] dir = "Bwd" -> "_dst_"
           [] OTHER -> "todo"
    ELSE CASE dir = "Fwd" -> "_dst_"
           [] dir = "Bwd" -> "_src_"
           [] OTHER -> "todo"

\* Expr::FieldAcc(name, Expr::Variable(binding).into())
FieldAcc(name, binding) == [acc |-> name, var |-> binding]

\* Expr::Apply(Arc::new(OpEq), vec![FieldAcc(dir_prefix + k, edge),
\*                                  FieldAcc(k, node)])
KeyCondition(dir_prefix, k, node_binding, edge_binding) ==
    [op |-> "OpEq",
     args |-> <<FieldAcc(dir_prefix \o k, edge_binding),
                FieldAcc(k, node_binding)>>]

\* fn build_join_conditions(ctx, node_to_edge, is_outer, dir, node_name,
\*                          node_binding, edge_binding) -> Result<StaticExpr>;
\* tag "Panic" is a todo!() or an unwrap() of a failed lookup
build_join_conditions(ctx, node_to_edge, is_outer, dir, node_name, node_binding, edge_binding) ==
    LET dir_prefix == DirPrefix(node_to_edge, dir)
    IN  IF dir_prefix = "todo"
        THEN [tag |-> "Panic", expr |-> <<>>]
        ELSE IF node_name \notin DOMAIN ctx
        THEN [tag |-> "Panic", expr |-> <<>>]
        ELSE IF ctx[node_name].kind # "node"
        THEN [tag |-> "Panic", expr |-> <<>>]
        ELSE
          LET keys == ctx[node_name].keys
              conditions ==
                  [i \in 1..Len(keys) |->
                      KeyCondition(dir_prefix, keys[i], node_binding,
                                   edge_binding)]
          IN  [tag |-> "Ok",
               expr |-> IF Len(conditions) = 1 THEN conditions[1]
                        ELSE [op |-> "OpAnd", args |-> conditions]]

----------------------------------------------------------------------------
(* parse_chain applied to a chain *)

ChainNodeParts == {NodePair(id, "N1") : id \in {NoIdent, <<"a">>}}

ChainEdgeParts == {EdgePair(s, d, NoIdent, "K") : s \in Markers, d \in Markers}

\* the chains of at most MaxChainLen elements, nodes and edges in turn
ChainInputs ==
    {ChainPair(parts) :
        parts \in UNION {AltSeqs(ChainNodeParts, ChainEdgeParts, n)
                         \cup AltSeqs(ChainEdgeParts, ChainNodeParts, n) :
                         n \in 0..MaxChainLen}}

NoParse == [tag |-> "None", err |-> "", els |-> <<>>, uuid |-> 0]

ChainParked == chainIn = ChainPair(<<>>) /\ chainOut = [NoParse EXCEPT !.tag = "Parked"]

ChainInit == chainIn \in ChainInputs /\ chainOut = NoParse

ParseChainCall ==
    /\ chainOut.tag = "None"
    /\ chainOut' = parse_chain(chainIn, 1)
    /\ UNCHANGED chainIn

----------------------------------------------------------------------------
(* build_join_conditions applied to its arguments *)

JoinInputs ==
    [node_to_edge : BOOLEAN, is_outer : BOOLEAN, dir : {"Fwd", "Bwd", "Bidi"},
     node_name : DOMAIN Catalog \cup {"X"}, node_binding : {"a", "@1"},
     edge_binding : {"e", "@2"}]

NoJoin == [tag |-> "None", expr |-> <<>>]

JoinParked == joinIn = <<>> /\ joinOut = [NoJoin EXCEPT !.tag = "Parked"]

JoinInit == joinIn \in JoinInputs /\ joinOut = NoJoin

JoinConditionsCall ==
    /\ joinOut.tag = "None"
    /\ joinOut' = build_join_conditions(Catalog, joinIn.node_to_edge,
                                        joinIn.is_outer, joinIn.dir,
                                        joinIn.node_name, joinIn.node_binding,
                                        joinIn.edge_binding)
    /\ UNCHANGED joinIn

----------------------------------------------------------------------------
(* build_from_clause *)

FromNodeParts ==
    {NodePair(id, t) : id \in {NoIdent, <<"a">>, <<"b">>}, t \in {"N1", "X"}}

\* edges of a From clause: an inner forward edge, or one marked outer on
\* both sides
FromEdgeParts ==
    {EdgePair(m[1], m[2], id, "K") :
        m \in {<<<<>>, <<"fwd_marker">>>>,
               <<<<"outer_marker">>, <<"fwd_marker", "outer_marker">>>>},
        id \in {NoIdent, <<"a">>, <<"e">>}}

\* the arguments of From: a pair without inner pair, or one holding a chain
\* of at most MaxChainLen elements that starts with a node
FromArgs ==
    {<<>>} \cup
    {<<ChainPair(parts)>> :
        parts \in UNION {AltSeqs(FromNodeParts, FromEdgeParts, n) :
                         n \in 0..MaxChainLen}}

\* args.next(), taken pairs having been taken: None or the next pair
ArgsNext(taken) ==
    {[some |-> FALSE, arg |-> <<>>]}
    \cup {[some |-> TRUE, arg |-> a] :
             a \in IF taken < MaxChains THEN FromArgs ELSE {}}

NoChainResult == ChainResult("None", "", "", NoPlan, 0, 0)

FromResult(tag, err, name, plan) ==
    [tag |-> tag, err |-> err, name |-> name, plan |-> plan]

NoResult == FromResult("None", "", "", NoPlan)

FromParked ==
    /\ fPc = "parked"
    /\ fPrev = FALSE
    /\ fTaken = 0
    /\ fRet = NoPlan
    /\ fLast = [arg |-> <<>>, res |-> NoChainResult, before |-> NoPlan]
    /\ fBuilds = 0
    /\ fResult = NoResult
    /\ uuidNext = 1

FromInit ==
    /\ fPc = "start"
    /\ fPrev = FALSE
    /\ fTaken = 0
    /\ fRet = NoPlan
    /\ fLast = [arg |-> <<>>, res |-> NoChainResult, before |-> NoPlan]
    /\ fBuilds = 0
    /\ fResult = NoResult
    /\ uuidNext = 1

\* variant: the upstream plan is never looked at
IsChainedNever(prev) == FALSE

\* !matches!(prev, None), prev being TRUE for Some(plan)
IsChained(prev) == prev # FALSE

\* build_from_clause is called: the check of prev, the first pair of args,
\* its build_chain
FromBegin ==
    /\ fPc = "start"
    /\ \E prev \in BOOLEAN :
        /\ fPrev' = prev
        /\ IF IsChained(prev)
           THEN /\ fPc' = "done"
                /\ fResult' = FromResult("Err", "Unchainable", "From", NoPlan)
                /\ UNCHANGED <<fTaken, fRet, fLast, fBuilds, uuidNext>>
           ELSE \E nx \in ArgsNext(fTaken) :
                  IF ~nx.some
                  THEN /\ fPc' = "done"
                       /\ fResult' = FromResult("Err", "NotEnoughArguments",
                                                "From", NoPlan)
                       /\ UNCHANGED <<fTaken, fRet, fLast, fBuilds, uuidNext>>
                  ELSE LET r == build_chain(Catalog, nx.arg, uuidNext)
                       IN  /\ fTaken' = fTaken + 1
                           /\ fLast' = [arg |-> nx.arg, res |-> r, before |-> fRet]
                           /\ fBuilds' = fBuilds + r.builds
                           /\ uuidNext' = r.uuid
                           /\ IF r.tag = "Ok"
                              THEN /\ fRet' = r.plan
                                   /\ fPc' = "loop"
                                   /\ UNCHANGED fResult
                              ELSE /\ fPc' = "done"
                                   /\ fResult' = FromResult(r.tag, r.err,
                                                            r.name, NoPlan)
                                   /\ UNCHANGED fRet

\* one turn of `for arg in args`: build_chain, the disjointness check of
\* the bindings, the CartesianJoin
FromLoop ==
    /\ fPc = "loop"
    /\ \E nx \in ArgsNext(fTaken) :
        /\ nx.some
        /\ LET r   == build_chain(Catalog, nx.arg, uuidNext)
               existing_bindings == Bindings(fRet)
               new_bindings      == Bindings(r.plan)
               dups == existing_bindings \cap new_bindings
           IN  /\ fTaken' = fTaken + 1
               /\ fLast' = [arg |-> nx.arg, res |-> r, before |-> fRet]
               /\ fBuilds' = fBuilds + r.builds
               /\ uuidNext' = r.uuid
               /\ IF r.tag # "Ok"
                  THEN /\ fPc' = "done"
                       /\ fResult' = FromResult(r.tag, r.err, r.name, NoPlan)
                       /\ UNCHANGED fRet
                  ELSE IF dups # {}
                  THEN /\ fPc' = "done"
                       /\ fResult' = FromResult("Err", "DuplicateBinding",
                                                CHOOSE d \in dups : TRUE,
                                                NoPlan)
                       /\ UNCHANGED fRet
                  ELSE /\ fRet' = Cartesian(fRet, r.plan)
                       /\ UNCHANGED <<fPc, fResult>>
    /\ UNCHANGED fPrev

\* args is exhausted: Ok(ret)
FromReturn ==
    /\ fPc = "loop"
    /\ fPc' = "done"
    /\ fResult' = FromResult("Ok", "", "", fRet)
    /\ UNCHANGED <<fPrev, fTaken, fRet, fLast, fBuilds, uuidNext>>

----------------------------------------------------------------------------
(* Chain/path planner: properties *)

HasOuter(m) == \E i \in DOMAIN m : m[i] = "outer_marker"

HasArrow(m) == \E i \in DOMAIN m : m[i] \in {"bwd_marker", "fwd_marker"}

DualOuter(p) == p.rule = "edge_part" /\ HasOuter(p.src) /\ HasOuter(p.dst)

\* the join kind of the marker matrix
MatrixJoin(src_outer, dst_outer) ==
    CASE ~src_outer /\ ~dst_outer -> "Inner"
      [] ~src_outer /\ dst_outer  -> "Left"
      [] src_outer /\ ~dst_outer  -> "Right"
      [] OTHER -> "None"

C8_DirectionDerivation ==
    chainOut.tag = "Ok" =>
        \A i \in DOMAIN chainIn.parts :
            chainIn.parts[i].rule = "edge_part" =>
                LET src == chainIn.parts[i].src
                    dst == chainIn.parts[i].dst
                    dir == chainOut.els[i].part.dir
                IN  /\ dir = IF HasArrow(src) = HasArrow(dst) THEN "Bidi"
                             ELSE IF HasArrow(dst) THEN "Fwd" ELSE "Bwd"
                    /\ (src = <<"bwd_marker">> /\ dst = <<"fwd_marker">>)
                          => dir = "Bidi"
                    /\ (src = <<>> /\ dst = <<"fwd_marker">>) => dir = "Fwd"
                    /\ (src = <<"bwd_marker">> /\ dst = <<>>) => dir = "Bwd"
                    /\ (src = <<>> /\ dst = <<>>) => dir = "Bidi"

\* C8 witness: a parsed chain edge-node-edge with markers (<-, -) on the
\* first edge and (-, ->) on the last.
C8_Witness ==
    /\ chainOut.tag = "Ok"
    /\ Len(chainIn.parts) = 3
    /\ chainIn.parts[1].src = <<"bwd_marker">> /\ chainIn.parts[1].dst = <<>>
    /\ chainIn.parts[3].src = <<>> /\ chainIn.parts[3].dst = <<"fwd_marker">>
    /\ chainOut.els[1].part.dir = "Bwd"
    /\ chainOut.els[3].part.dir = "Fwd"

\* the parts of the latest chain handed to build_chain
LastParts == IF fLast.arg = <<>> THEN <<>> ELSE fLast.arg[1].parts

\* the bindings the chain's elements are given by name
NamedBindings ==
    {LastParts[i].ident[1] :
        i \in {j \in DOMAIN LastParts : LastParts[j].ident # NoIdent}}

RepeatsBinding ==
    \E i, j \in DOMAIN LastParts :
        /\ i < j
        /\ LastParts[i].ident # NoIdent
        /\ LastParts[i].ident = LastParts[j].ident

\* the latest chain has elements, all its tables are in the catalog and
\* none of its edges is marked outer on both sides
LastWellFormed ==
    /\ LastParts # <<>>
    /\ \A i \in DOMAIN LastParts :
          LastParts[i].target \in DOMAIN Catalog /\ ~DualOuter(LastParts[i])

RECURSIVE ScanBindings(_)
\* the bindings of the plan's table scans, left to right
ScanBindings(plan) ==
    CASE plan.op = "TableScan" -> <<plan.binding>>
      [] plan.op = "Cartesian" ->
            ScanBindings(plan.left) \o ScanBindings(plan.right)
      [] OTHER -> <<>>

\* C6: binding uniqueness, for chains that fail for no other reason:
\* build_chain rejects with DuplicateBinding a chain in which two elements
\* carry the same binding; build_from_clause rejects with DuplicateBinding,
\* naming a shared binding, a chain that shares a binding with the plan
\* accumulated from the earlier chains; the table scans of a plan returned
\* with Ok have pairwise distinct bindings.
C6_BindingUniqueness ==
    /\ (fLast.res.tag # "None" /\ LastWellFormed /\ RepeatsBinding) =>
          fLast.res.tag = "Err" /\ fLast.res.err = "DuplicateBinding"
    /\ (fLast.res.tag # "None" /\ LastWellFormed
            /\ NamedBindings \cap Bindings(fLast.before) # {}) =>
          /\ fPc = "done"
          /\ fResult.tag = "Err"
          /\ fResult.err = "DuplicateBinding"
          /\ fResult.name \in NamedBindings
    /\ (fPc = "done" /\ fResult.tag = "Ok") =>
          \A i, j \in DOMAIN ScanBindings(fResult.plan) :
              i # j => ScanBindings(fResult.plan)[i] # ScanBindings(fResult.plan)[j]

\* C9: plan assembly: for a chain of more than one element with valid
\* tables and distinct bindings build_chain returns Ok with a plan: the
\* scans joined left-deep under a WhereFilter.
C9_ChainPlanAssembled ==
    (fLast.res.tag # "None" /\ LastWellFormed /\ Len(LastParts) > 1
        /\ ~RepeatsBinding) =>
        fLast.res.tag = "Ok" /\ fLast.res.plan.op = "WhereFilter"

\* C10: join predicate synthesis: for a node table with key list K and an
\* edge of direction Fwd or Bwd, build_join_conditions returns one equality
\* edge_binding.{prefix}{k} == node_binding.{k} per key k, in key order,
\* with prefix _src_ for (node->edge, Fwd) and (edge->node, Bwd) and _dst_
\* for (node->edge, Bwd) and (edge->node, Fwd): bare when |K| = 1, else
\* under one And.
C10_JoinPredicates ==
    (/\ joinOut.tag \notin {"None", "Parked"}
     /\ joinIn.dir \in {"Fwd", "Bwd"}
     /\ joinIn.node_name \in DOMAIN Catalog
     /\ Catalog[joinIn.node_name].kind = "node") =>
        LET K == Catalog[joinIn.node_name].keys
            prefix ==
                IF \/ joinIn.node_to_edge /\ joinIn.dir = "Fwd"
                   \/ ~joinIn.node_to_edge /\ joinIn.dir = "Bwd"
                THEN "_src_" ELSE "_dst_"
            eq(i) ==
                [op |-> "OpEq",
                 args |-> <<[acc |-> prefix \o K[i], var |-> joinIn.edge_binding],
                            [acc |-> K[i], var |-> joinIn.node_binding]>>]
        IN  /\ joinOut.tag = "Ok"
            /\ IF Len(K) = 1
               THEN joinOut.expr = eq(1)
               ELSE /\ joinOut.expr.op = "OpAnd"
                    /\ Len(joinOut.expr.args) = Len(K)
                    /\ \A i \in 1..Len(K) : joinOut.expr.args[i] = eq(i)

\* C10 witness: an edge of direction Bwd joined to a node of two keys.
C10_Witness ==
    /\ joinOut.tag = "Ok"
    /\ ~joinIn.node_to_edge
    /\ joinIn.dir = "Bwd"
    /\ Len(Catalog[joinIn.node_name].keys) = 2
    /\ joinOut.expr.op = "OpAnd"
    /\ joinOut.expr.args[2].args[1].acc = "_src_k2"

\* C11: From is non-chainable: build_from_clause called with an upstream
\* plan returns Unchainable("From") whatever its arguments are, and by then
\* no pair of args has been taken, no chain parsed (no anonymous binding
\* drawn, no build_chain result) and no table resolved.
C11_FromUnchainable ==
    fPrev =>
        /\ fPc = "done"
        /\ fResult = FromResult("Err", "Unchainable", "From", NoPlan)
        /\ fTaken = 0
        /\ fBuilds = 0
        /\ fLast.res = NoChainResult
        /\ fRet = NoPlan
        /\ uuidNext = 1

\* C11 witness: a call with an upstream plan has returned.
C11_Witness ==
    /\ fPrev
    /\ fPc = "done"
    /\ fResult.err = "Unchainable"

----------------------------------------------------------------------------
(* Value: the type, its tags, its derived order *)

\* a Cow<str> is the sequence of its characters
Chars == {"a", "b", "/", "\\", "\"", "\n"}

\* the code point of a character
Code(c) ==
    CASE c = "\n" -> 10
      [] c = "\"" -> 34
      [] c = "/"  -> 47
      [] c = "\\" -> 92
      [] c = "a"  -> 97
      [] c = "b"  -> 98
      [] OTHER    -> 0

\* the variants of enum Value: the payload is in bool, in num (with exp for
\* a Float) or in str, the children are in args
Value(kind, bool, num, exp, str, args) ==
    [kind |-> kind, bool |-> bool, num |-> num, exp |-> exp, str |-> str,
     args |-> args]

VNull == Value("Null", FALSE, 0, 0, <<>>, <<>>)

VBool(b) == Value("Bool", b, 0, 0, <<>>, <<>>)

VUInt(u) == Value("UInt", FALSE, u, 0, <<>>, <<>>)

VInt(i) == Value("Int", FALSE, i, 0, <<>>, <<>>)

\* a finite float is m * 10^e, m not divisible by 10 (0 is <<0, 0>>)
VFloat(m, e) == Value("Float", FALSE, m, e, <<>>, <<>>)

VUuid(u) == Value("Uuid", FALSE, u, 0, <<>>, <<>>)

VText(t) == Value("Text", FALSE, 0, 0, t, <<>>)

VList(l) == Value("List", FALSE, 0, 0, <<>>, l)

\* a Dict is the sequence of its <<key, value>> entries in key order
VDict(d) == Value("Dict", FALSE, 0, 0, <<>>, d)

VVariable(s) == Value("Variable", FALSE, 0, 0, s, <<>>)

VApply(op, args) == Value("Apply", FALSE, 0, 0, op, args)

EndSentinel == Value("EndSentinel", FALSE, 0, 0, <<>>, <<>>)

\* the position of a variant in the declaration of enum Value
VariantIndex(v) ==
    CASE v.kind = "Null" -> 0
      [] v.kind = "Bool" -> 1
      [] v.kind = "UInt" -> 2
      [] v.kind = "Int" -> 3
      [] v.kind = "Float" -> 4
      [] v.kind = "Uuid" -> 5
      [] v.kind = "Text" -> 6
      [] v.kind = "List" -> 7
      [] v.kind = "Dict" -> 8
      [] v.kind = "Variable" -> 9
      [] v.kind = "Apply" -> 10
      [] OTHER -> 11

\* enum Tag: the numeric tag of each kind
Tag ==
    [BoolFalse |-> 1, Null |-> 2, BoolTrue |-> 3, Int |-> 4, Float |-> 5,
     Text |-> 6, Uuid |-> 7, UInt |-> 8, List |-> 128, Dict |-> 129,
     Variable |-> 253, Apply |-> 254, MaxTag |-> 255]

\* the tag of a value: the Tag member named after its kind
TagOf(v) ==
    CASE v.kind = "Bool" -> IF v.bool THEN Tag.BoolTrue ELSE Tag.BoolFalse
      [] v.kind = "EndSentinel" -> Tag.MaxTag
      [] OTHER -> Tag[v.kind]

IntCmp(a, b) == IF a < b THEN "Less" ELSE IF a > b THEN "Greater" ELSE "Equal"

RECURSIVE Pow10(_)
Pow10(n) == IF n = 0 THEN 1 ELSE 10 * Pow10(n - 1)

\* OrderedFloat's order on finite floats
FloatCmp(x, y) ==
    LET e == Min({x[2], y[2]})
    IN  IntCmp(x[1] * Pow10(x[2] - e), y[1] * Pow10(y[2] - e))

\* the order of str: lexicographic on the code points
RECURSIVE StrCmp(_, _)
StrCmp(s, t) ==
    IF s = <<>> THEN (IF t = <<>> THEN "Equal" ELSE "Less")
    ELSE IF t = <<>> THEN "Greater"
    ELSE IF Head(s) # Head(t) THEN IntCmp(Code(Head(s)), Code(Head(t)))
    ELSE StrCmp(Tail(s), Tail(t))

\* #[derive(Ord)] on Value: the variant first, in declaration order, then
\* the payload; Vec and BTreeMap compare lexicographically
RECURSIVE cmp(_, _)
RECURSIVE SeqCmp(_, _)
RECURSIVE EntriesCmp(_, _)
cmp(a, b) ==
    IF VariantIndex(a) # VariantIndex(b)
    THEN IntCmp(VariantIndex(a), VariantIndex(b))
    ELSE CASE a.kind = "Bool" ->
                IntCmp(IF a.bool THEN 1 ELSE 0, IF b.bool THEN 1 ELSE 0)
           [] a.kind \in {"UInt", "Int", "Uuid"} -> IntCmp(a.num, b.num)
           [] a.kind = "Float" -> FloatCmp(<<a.num, a.exp>>, <<b.num, b.exp>>)
           [] a.kind \in {"Text", "Variable"} -> StrCmp(a.str, b.str)
           [] a.kind = "List" -> SeqCmp(a.args, b.args)
           [] a.kind = "Dict" -> EntriesCmp(a.args, b.args)
           [] a.kind = "Apply" ->
                IF StrCmp(a.str, b.str) # "Equal" THEN StrCmp(a.str, b.str)
                ELSE SeqCmp(a.args, b.args)
           [] OTHER -> "Equal"

SeqCmp(s, t) ==
    IF s = <<>> THEN (IF t = <<>> THEN "Equal" ELSE "Less")
    ELSE IF t = <<>> THEN "Greater"
    ELSE IF cmp(Head(s), Head(t)) # "Equal" THEN cmp(Head(s), Head(t))
    ELSE SeqCmp(Tail(s), Tail(t))

EntriesCmp(s, t) ==
    IF s = <<>> THEN (IF t = <<>> THEN "Equal" ELSE "Less")
    ELSE IF t = <<>> THEN "Greater"
    ELSE IF StrCmp(Head(s)[1], Head(t)[1]) # "Equal"
         THEN StrCmp(Head(s)[1], Head(t)[1])
    ELSE IF cmp(Head(s)[2], Head(t)[2]) # "Equal"
         THEN cmp(Head(s)[2], Head(t)[2])
    ELSE EntriesCmp(Tail(s), Tail(t))

----------------------------------------------------------------------------
(* Value: the values the operations are applied to *)

RECURSIVE SeqsUpTo(_, _)
SeqsUpTo(S, n) ==
    IF n = 0 THEN {<<>>}
    ELSE SeqsUpTo(S, n - 1)
         \cup {Append(s, x) : s \in {t \in SeqsUpTo(S, n - 1) : Len(t) = n - 1},
                              x \in S}

Texts == SeqsUpTo(Chars, MaxTextLen)

Floats ==
    {VFloat(m, e) : m \in {k \in (-MaxNum)..MaxNum : k % 10 # 0}, e \in -1..1}
    \cup {VFloat(0, 0)}

\* the values of the primitive kinds: tags 1 to 8
Prims ==
    {VNull, VBool(FALSE), VBool(TRUE)}
    \cup {VUInt(u) : u \in 0..MaxNum \cup {BigNum}}
    \cup {VInt(i) : i \in (-MaxNum)..MaxNum \cup {BigNum, -BigNum}}
    \cup Floats
    \cup {VUuid(u) : u \in 0..1}
    \cup {VText(t) : t \in Texts}

IsPrim(v) == TagOf(v) <= Tag.UInt

ValInit ==
    /\ vOp = "none"
    /\ vA = <<>>
    /\ vB = <<>>
    /\ vRes = <<>>

\* a.cmp(&b) on two primitive values
CmpCall ==
    /\ vOp = "none"
    /\ \E a \in Prims, b \in Prims :
        /\ vOp' = "cmp"
        /\ vA' = a
        /\ vB' = b
        /\ vRes' = cmp(a, b)

\* C12: tag order is Value order on the primitive range: for values a, b
\* of distinct primitive kinds, a < b in the derived order of Value exactly
\* when the tag of a is less than the tag of b (BoolFalse < Null < BoolTrue
\* < Int < Float < Text < Uuid < UInt).
C12_TagOrderIsValueOrder ==
    (vOp = "cmp" /\ IsPrim(vA) /\ IsPrim(vB) /\ TagOf(vA) # TagOf(vB)) =>
        (vRes = "Less" <=> TagOf(vA) < TagOf(vB))

----------------------------------------------------------------------------
(* Value: Display *)

DigitChars == <<"0", "1", "2", "3", "4", "5", "6", "7", "8", "9">>

Digits == Range(DigitChars)

\* n.to_string() of an unsigned n
RECURSIVE ToDigits(_)
ToDigits(n) ==
    IF n < 10 THEN <<DigitChars[n + 1]>>
    ELSE Append(ToDigits(n \div 10), DigitChars[(n % 10) + 1])

\* i.to_string() of a signed i
IntToString(i) == IF i < 0 THEN <<"-">> \o ToDigits(-i) ELSE ToDigits(i)

\* format!("{:e}", f) of the finite float m * 10^e: the digits of m with a
\* point after the first one, then e and the decimal exponent
FloatToString(m, e) ==
    LET ds  == ToDigits(IF m < 0 THEN -m ELSE m)
        exp == e + Len(ds) - 1
    IN  (IF m < 0 THEN <<"-">> ELSE <<>>)
        \o <<Head(ds)>>
        \o (IF Len(ds) > 1 THEN <<".">> \o Tail(ds) ELSE <<>>)
        \o <<"e">> \o IntToString(exp)

RECURSIVE Zeros(_)
Zeros(n) == IF n = 0 THEN <<>> ELSE <<"0">> \o Zeros(n - 1)

\* u.to_string() of a Uuid below 10: the hyphenated form 8-4-4-4-12
UuidToString(u) ==
    Zeros(8) \o <<"-">> \o Zeros(4) \o <<"-">> \o Zeros(4) \o <<"-">>
    \o Zeros(4) \o <<"-">> \o Zeros(11) \o ToDigits(u)

\* the escape Display writes for a character of a Text
Escape(c) ==
    CASE c = "\"" -> <<"\\", "\"">>
      [] c = "\\" -> <<"\\", "\\">>
      [] c = "/"  -> <<"\\", "/">>
      [] c = "\f" -> <<"\\", "f">>
      [] c = "\n" -> <<"\\", "n">>
      [] c = "\r" -> <<"\\", "r">>
      [] c = "\t" -> <<"\\", "t">>
      [] OTHER    -> <<c>>

RECURSIVE EscapeAll(_)
EscapeAll(t) == IF t = <<>> THEN <<>> ELSE Escape(Head(t)) \o EscapeAll(Tail(t))

TextToString(t) == <<"\"">> \o EscapeAll(t) \o <<"\"">>

\* the grave accent, which a string of this language cannot hold
Backtick == "grave"

\* impl Display for Value
RECURSIVE Display(_)
RECURSIVE DisplayList(_, _)
RECURSIVE DisplayDict(_, _)
RECURSIVE DisplayArgs(_, _)
Display(v) ==
    CASE v.kind = "Null" -> <<"n", "u", "l", "l">>
      [] v.kind = "Bool" ->
            IF v.bool THEN <<"t", "r", "u", "e">> ELSE <<"f", "a", "l", "s", "e">>
      [] v.kind = "UInt" -> ToDigits(v.num) \o <<"u">>
      [] v.kind = "Int" -> IntToString(v.num)
      [] v.kind = "Float" -> FloatToString(v.num, v.exp)
      [] v.kind = "Uuid" -> UuidToString(v.num)
      [] v.kind = "Text" -> TextToString(v.str)
      [] v.kind = "List" -> <<"[">> \o DisplayList(v.args, TRUE) \o <<"]">>
      [] v.kind = "Dict" -> <<"{">> \o DisplayDict(v.args, TRUE) \o <<"}">>
      [] v.kind = "Variable" -> <<Backtick>> \o v.str \o <<Backtick>>
      [] v.kind = "Apply" ->
            <<"(">> \o v.str \o <<" ">> \o DisplayArgs(v.args, TRUE) \o <<")">>
      [] OTHER -> <<"S", "e", "n", "t", "i", "n", "e", "l">>

DisplayList(l, first) ==
    IF l = <<>> THEN <<>>
    ELSE (IF first THEN <<>> ELSE <<",">>)
         \o Display(Head(l)) \o DisplayList(Tail(l), FALSE)

DisplayDict(d, first) ==
    IF d = <<>> THEN <<>>
    ELSE (IF first THEN <<>> ELSE <<",">>)
         \o TextToString(Head(d)[1]) \o <<":">> \o Display(Head(d)[2])
         \o DisplayDict(Tail(d), FALSE)

\* args.iter().map(|v| v.to_string()).join(" ")
DisplayArgs(l, first) ==
    IF l = <<>> THEN <<>>
    ELSE (IF first THEN <<>> ELSE <<" ">>)
         \o Display(Head(l)) \o DisplayArgs(Tail(l), FALSE)

----------------------------------------------------------------------------
(* The expression grammar: from text to pairs.  The grammar file is not   *)
(* part of the sources at hand; it is written after the primary           *)
(* productions of the language description and the rules the builders     *)
(* match on.                                                              *)

\* a pest Pair: as_rule(), as_str(), into_inner()
Pair(rule, str, inner) == [rule |-> rule, str |-> str, inner |-> inner]

NoPair == Pair("none", <<>>, <<>>)

\* the outcome of matching a production at the start of a text: the pair
\* and the text left over
Lexed(ok, pair, rest) == [ok |-> ok, pair |-> pair, rest |-> rest]

NoMatch == Lexed(FALSE, NoPair, <<>>)

Letters == {"a", "b", "e", "f", "i", "l", "n", "r", "s", "t", "u", "S"}

\* the binary operators: symbol and rule
OpSymbols ==
    {<<<<"|", "|">>, "op_or">>, <<<<"&", "&">>, "op_and">>,
     <<<<">", "=">>, "op_ge">>, <<<<"<", "=">>, "op_le">>,
     <<<<">">>, "op_gt">>, <<<<"<">>, "op_lt">>, <<<<"%">>, "op_mod">>,
     <<<<"=", "=">>, "op_eq">>, <<<<"!", "=">>, "op_ne">>,
     <<<<"+", "+">>, "op_str_cat">>, <<<<"+">>, "op_add">>,
     <<<<"-">>, "op_sub">>, <<<<"*", "*">>, "op_pow">>, <<<<"*">>, "op_mul">>,
     <<<<"/">>, "op_div">>, <<<<"~", "~">>, "op_coalesce">>}

RECURSIVE TakeWhile(_, _)
TakeWhile(s, S) ==
    IF s = <<>> \/ Head(s) \notin S THEN <<>>
    ELSE <<Head(s)>> \o TakeWhile(Tail(s), S)

Drop(s, n) == SubSeq(s, n + 1, Len(s))

StartsWith(s, p) == Len(s) >= Len(p) /\ SubSeq(s, 1, Len(p)) = p

\* the part of s that was consumed when rest is left over
Consumed(s, rest) == SubSeq(s, 1, Len(s) - Len(rest))

\* pos_int, dot_float, sci_float at the start of s, which starts with a digit
LexNumber(s) ==
    LET int    == TakeWhile(s, Digits \cup {"_"})
        r1     == Drop(s, Len(int))
        frac   == IF r1 # <<>> /\ Head(r1) = "."
                  THEN TakeWhile(Tail(r1), Digits \cup {"_"}) ELSE <<>>
        r2     == IF frac # <<>> THEN Drop(r1, 1 + Len(frac)) ELSE r1
        hasE   == r2 # <<>> /\ Head(r2) = "e"
        sign   == IF hasE /\ Len(r2) >= 2 /\ r2[2] \in {"-", "+"}
                  THEN <<r2[2]>> ELSE <<>>
        expd   == IF hasE THEN TakeWhile(Drop(r2, 1 + Len(sign)), Digits)
                  ELSE <<>>
        r3     == IF expd # <<>> THEN Drop(r2, 1 + Len(sign) + Len(expd))
                  ELSE r2
    IN  IF expd # <<>>
        THEN Lexed(TRUE, Pair("sci_float", Consumed(s, r3), <<>>), r3)
        ELSE IF frac # <<>>
        THEN Lexed(TRUE, Pair("dot_float", Consumed(s, r2), <<>>), r2)
        ELSE Lexed(TRUE, Pair("pos_int", int, <<>>), r1)

\* the length of a quoted string's body and closing quote at the start of
\* s, or -1 when the string is not terminated
RECURSIVE ScanQuoted(_)
ScanQuoted(s) ==
    IF s = <<>> THEN -1
    ELSE IF Head(s) = "\"" THEN 1
    ELSE IF Head(s) = "\\"
         THEN IF Len(s) < 2 \/ ScanQuoted(Drop(s, 2)) < 0 THEN -1
              ELSE 2 + ScanQuoted(Drop(s, 2))
    ELSE IF ScanQuoted(Tail(s)) < 0 THEN -1
    ELSE 1 + ScanQuoted(Tail(s))

\* quoted_string at the start of s, which starts with a double quote
LexQuoted(s) ==
    LET n == ScanQuoted(Tail(s))
    IN  IF n < 0 THEN NoMatch
        ELSE Lexed(TRUE, Pair("quoted_string", SubSeq(s, 1, n + 1), <<>>),
                   Drop(s, n + 1))

\* null, boolean, a parameter $x, a variable: ident for the value
\* grammar, var for the CozoScript grammar; s starts with a letter, $ or ?
LexWord(b, s) ==
    LET w == IF Head(s) \in {"$", "?"}
             THEN <<Head(s)>> \o TakeWhile(Tail(s), Letters)
             ELSE TakeWhile(s, Letters)
        rule == IF w = <<"n", "u", "l", "l">> THEN "null"
                ELSE IF w \in {<<"t", "r", "u", "e">>, <<"f", "a", "l", "s", "e">>}
                THEN "boolean"
                ELSE IF Head(s) = "$" THEN "param"
                ELSE IF b = "value" THEN "ident" ELSE "var"
    IN  IF Len(w) = 1 /\ Head(s) \in {"$", "?"} THEN NoMatch
        ELSE Lexed(TRUE, Pair(rule, w, <<>>), Drop(s, Len(w)))

\* the operator at the start of s, the longest symbol first, among the
\* operators the grammar of builder b knows
LexOp(b, known, s) ==
    Only({IF fits = {} THEN NoMatch
          ELSE Only({Lexed(TRUE, Pair(o[2], o[1], <<>>), Drop(s, Len(o[1])))
                     : o \in {CHOOSE x \in fits :
                                 \A y \in fits : Len(x[1]) >= Len(y[1])}})
          : fits \in {{o \in OpSymbols :
                          o[2] \in known /\ StartsWith(s, o[1])}}})

RECURSIVE GExpr(_, _, _)
RECURSIVE GOperand(_, _, _)
RECURSIVE GTerm(_, _, _)
RECURSIVE GItems(_, _, _, _, _)
RECURSIVE GDictPair(_, _, _)
RECURSIVE GOpTail(_, _, _, _)

\* a literal, a list, a dict (value grammar only) or a grouping
GTerm(b, known, s) ==
    IF s = <<>> THEN NoMatch
    ELSE IF Head(s) \in Digits THEN LexNumber(s)
    ELSE IF Head(s) = "\"" THEN LexQuoted(s)
    ELSE IF Head(s) \in Letters \cup {"$", "?"} THEN LexWord(b, s)
    ELSE IF Head(s) = "[" THEN GItems(b, known, "list", Tail(s), "]")
    ELSE IF Head(s) = "{" /\ b = "value"
         THEN GItems(b, known, "dict", Tail(s), "}")
    ELSE IF Head(s) = "("
         THEN Only({IF e.ok /\ e.rest # <<>> /\ Head(e.rest) = ")"
                    THEN Lexed(TRUE, Pair("grouping", <<>>, <<e.pair>>),
                               Tail(e.rest))
                    ELSE NoMatch
                    : e \in {GExpr(b, known, Tail(s))}})
    ELSE NoMatch

\* the elements of a list or the entries of a dict, up to the closing
\* bracket
GItems(b, known, rule, s, close) ==
    IF s # <<>> /\ Head(s) = close
    THEN Lexed(TRUE, Pair(rule, <<>>, <<>>), Tail(s))
    ELSE Only({IF ~item.ok \/ item.rest = <<>> THEN NoMatch
               ELSE IF Head(item.rest) = close
               THEN Lexed(TRUE, Pair(rule, <<>>, <<item.pair>>),
                          Tail(item.rest))
               ELSE IF Head(item.rest) # "," THEN NoMatch
               ELSE Only({IF ~more.ok \/ more.pair.inner = <<>> THEN NoMatch
                          ELSE Lexed(TRUE,
                                     Pair(rule, <<>>,
                                          <<item.pair>> \o more.pair.inner),
                                     more.rest)
                          : more \in {GItems(b, known, rule, Tail(item.rest),
                                             close)}})
               : item \in {IF rule = "list" THEN GExpr(b, known, s)
                           ELSE GDictPair(b, known, s)}})

\* dict_pair: a quoted string, a colon, an expression
GDictPair(b, known, s) ==
    IF s = <<>> \/ Head(s) # "\"" THEN NoMatch
    ELSE Only({IF ~k.ok \/ k.rest = <<>> \/ Head(k.rest) # ":" THEN NoMatch
               ELSE Only({IF ~v.ok THEN NoMatch
                          ELSE Lexed(TRUE,
                                     Pair("dict_pair", Consumed(s, v.rest),
                                          <<k.pair, v.pair>>),
                                     v.rest)
                          : v \in {GExpr(b, known, Tail(k.rest))}})
               : k \in {LexQuoted(s)}})

\* an operand of an expression.  Value grammar: unary holds a sign and a
\* term, term holds a literal or a grouping.  CozoScript grammar: unary
\* holds a sign and an operand, or a literal; a grouping stands for itself.
GOperand(b, known, s) ==
    IF s # <<>> /\ Head(s) \in {"-", "!"}
    THEN Only({IF ~t.ok \/ (b = "value" /\ t.pair.rule # "term") THEN NoMatch
               ELSE Lexed(TRUE,
                          Pair("unary", Consumed(s, t.rest),
                               <<Pair(IF Head(s) = "-" THEN "minus"
                                      ELSE "negate",
                                      <<Head(s)>>, <<>>),
                                 t.pair>>),
                          t.rest)
               : t \in {GOperand(b, known, Tail(s))}})
    ELSE Only({IF ~m.ok THEN NoMatch
               ELSE Only({IF b = "value"
                          THEN Lexed(TRUE, Pair("term", lit.str, <<lit>>),
                                     m.rest)
                          ELSE IF lit.rule = "grouping"
                          THEN Lexed(TRUE, lit, m.rest)
                          ELSE Lexed(TRUE, Pair("unary", lit.str, <<lit>>),
                                     m.rest)
                          : lit \in {[m.pair EXCEPT
                                         !.str = Consumed(s, m.rest)]}})
               : m \in {GTerm(b, known, s)}})

\* the operators and operands that follow the first operand; the pairs so
\* far travel in the pair field
GOpTail(b, known, s, acc) ==
    Only({IF ~op.ok THEN Lexed(TRUE, acc, s)
          ELSE Only({IF ~o.ok THEN Lexed(TRUE, acc, s)
                     ELSE GOpTail(b, known, o.rest,
                                  acc \o <<op.pair, o.pair>>)
                     : o \in {GOperand(b, known, op.rest)}})
          : op \in {LexOp(b, known, s)}})

\* expr: operands separated by binary operators
GExpr(b, known, s) ==
    Only({IF ~first.ok THEN NoMatch
          ELSE Only({Lexed(TRUE, Pair("expr", Consumed(s, all.rest), all.pair),
                           all.rest)
                     : all \in {GOpTail(b, known, first.rest,
                                        <<first.pair>>)}})
          : first \in {GOperand(b, known, s)}})

----------------------------------------------------------------------------
(* The expression builders: literals *)

\* a Result: Ok(val), Err(err), or a panic named by err
Res(tag, err, val) == [tag |-> tag, err |-> err, val |-> val]

Ok(val) == Res("Ok", "", val)

Err(err) == Res("Err", err, <<>>)

Panic(err) == Res("Panic", err, <<>>)

\* s.replace('_', "")
RECURSIVE StripUnderscores(_)
StripUnderscores(s) ==
    IF s = <<>> THEN <<>>
    ELSE IF Head(s) = "_" THEN StripUnderscores(Tail(s))
    ELSE <<Head(s)>> \o StripUnderscores(Tail(s))

DigitValue(c) == CHOOSE n \in 0..9 : DigitChars[n + 1] = c

\* the number a sequence of digits of the given radix denotes
RECURSIVE DigitsToNat(_, _)
DigitsToNat(ds, radix) ==
    IF ds = <<>> THEN 0
    ELSE radix * DigitsToNat(SubSeq(ds, 1, Len(ds) - 1), radix)
         + DigitValue(ds[Len(ds)])

\* str::parse::<i64>() of a literal; the literals at hand are far below
\* i64::MAX, so only the empty text and a foreign character are refused
ParseI64(s) ==
    IF s = <<>> \/ \E i \in DOMAIN s : s[i] \notin Digits
    THEN Err("ParseIntError")
    ELSE Ok(DigitsToNat(s, 10))

\* the float m * 10^e with m not divisible by 10
RECURSIVE NormFloat(_, _)
NormFloat(m, e) ==
    IF m = 0 THEN <<0, 0>>
    ELSE IF m % 10 = 0 THEN NormFloat(m \div 10, e + 1)
    ELSE <<m, e>>

\* str::parse::<f64>() of digits [. digits] [e [sign] digits]
ParseF64(s) ==
    LET int  == TakeWhile(s, Digits)
        r1   == Drop(s, Len(int))
        frac == IF r1 # <<>> /\ Head(r1) = "." THEN TakeWhile(Tail(r1), Digits)
                ELSE <<>>
        r2   == IF r1 # <<>> /\ Head(r1) = "." THEN Drop(r1, 1 + Len(frac))
                ELSE r1
        neg  == Len(r2) >= 2 /\ r2[2] = "-"
        expd == IF r2 = <<>> THEN <<>>
                ELSE IF Len(r2) >= 2 /\ r2[2] \in {"-", "+"} THEN Drop(r2, 2)
                ELSE Drop(r2, 1)
        exp  == IF neg THEN -DigitsToNat(expd, 10) ELSE DigitsToNat(expd, 10)
    IN  IF int \o frac = <<>>
           \/ (r2 # <<>> /\ (Head(r2) # "e" \/ expd = <<>>))
           \/ \E i \in DOMAIN expd : expd[i] \notin Digits
        THEN Err("ParseFloatError")
        ELSE Ok(NormFloat(DigitsToNat(int \o frac, 10), exp - Len(frac)))

\* parse_int(s, radix) of a literal with a two-character prefix (0x, 0o,
\* 0b) and binary or octal digits
parse_int(s, radix) == DigitsToNat(StripUnderscores(Drop(s, 2)), radix)

\* the character an escape sequence \c denotes
Unescape(c) ==
    CASE c = "n" -> "\n"
      [] c = "t" -> "\t"
      [] c = "r" -> "\r"
      [] c = "f" -> "\f"
      [] OTHER   -> c

RECURSIVE UnescapeAll(_)
UnescapeAll(s) ==
    IF s = <<>> THEN <<>>
    ELSE IF Head(s) = "\\" /\ Len(s) >= 2
    THEN <<Unescape(s[2])>> \o UnescapeAll(Drop(s, 2))
    ELSE <<Head(s)>> \o UnescapeAll(Tail(s))

\* parse_string(pair): the content of a string literal: the text between
\* the quotes, with the escapes of a quoted string resolved
parse_string(pair) ==
    IF Len(pair.str) < 2 THEN Err("InvalidString")
    ELSE IF pair.rule = "raw_string"
    THEN Ok(SubSeq(pair.str, 3, Len(pair.str) - 1))
    ELSE Ok(UnescapeAll(SubSeq(pair.str, 2, Len(pair.str) - 1)))

----------------------------------------------------------------------------
(* The expression builders: Value::from_pair of value.rs, which builds a  *)
(* Value, and build_expr of query.rs, which builds a JSON AST.  Both are  *)
(* precedence climbers; the operators named b are the two builders,       *)
(* "value" and "query".                                                   *)

\* a string literal of the source, held as one unit
S(lit) == <<lit>>

\* serde_json's values; an object is a function from its keys
Json(j, bool, num, exp, str, items, obj) ==
    [j |-> j, bool |-> bool, num |-> num, exp |-> exp, str |-> str,
     items |-> items, obj |-> obj]

JNull == Json("Null", FALSE, 0, 0, <<>>, <<>>, <<>>)

JBool(b) == Json("Bool", b, 0, 0, <<>>, <<>>, <<>>)

JInt(i) == Json("Int", FALSE, i, 0, <<>>, <<>>, <<>>)

JFloat(m, e) == Json("Float", FALSE, m, e, <<>>, <<>>, <<>>)

JString(s) == Json("String", FALSE, 0, 0, s, <<>>, <<>>)

JArray(items) == Json("Array", FALSE, 0, 0, <<>>, items, <<>>)

JObject(entries) == Json("Object", FALSE, 0, 0, <<>>, <<>>, entries)

\* json!({"op": name, "args": args})
JOp(name, args) ==
    JObject((S("op") :> JString(S(name))) @@ (S("args") :> JArray(args)))

Operator(rule, assoc) == [rule |-> rule, assoc |-> assoc]

\* the two PREC_CLIMBER tables: the operators of each level, from the
\* lowest precedence to the highest
PREC_CLIMBER(b) ==
    IF b = "value"
    THEN <<{Operator("op_or", "Left")},
           {Operator("op_and", "Left")},
           {Operator("op_gt", "Left"), Operator("op_lt", "Left"),
            Operator("op_ge", "Left"), Operator("op_le", "Left")},
           {Operator("op_mod", "Left")},
           {Operator("op_eq", "Left"), Operator("op_ne", "Left")},
           {Operator("op_add", "Left"), Operator("op_sub", "Left")},
           {Operator("op_mul", "Left"), Operator("op_div", "Left")},
           {Operator("op_pow", "Right")},
           {Operator("op_coalesce", "Left")}>>
    ELSE <<{Operator("op_or", "Left")},
           {Operator("op_and", "Left")},
           {Operator("op_gt", "Left"), Operator("op_lt", "Left"),
            Operator("op_ge", "Left"), Operator("op_le", "Left")},
           {Operator("op_mod", "Left")},
           {Operator("op_eq", "Left"), Operator("op_ne", "Left")},
           {Operator("op_add", "Left"), Operator("op_sub", "Left"),
            Operator("op_str_cat", "Left")},
           {Operator("op_mul", "Left"), Operator("op_div", "Left")},
           {Operator("op_pow", "Right")}>>

\* PrecClimber::new: the operators of the i-th element get precedence i
ClimberOps(b) ==
    {o.rule : o \in UNION {PREC_CLIMBER(b)[i] : i \in DOMAIN PREC_CLIMBER(b)}}

PrecOf(b, rule) ==
    CHOOSE i \in DOMAIN PREC_CLIMBER(b) :
        \E o \in PREC_CLIMBER(b)[i] : o.rule = rule

\* variant: every operator associates to the left
AssocLeft(b, rule) == "Left"

AssocOf(b, rule) ==
    (CHOOSE o \in PREC_CLIMBER(b)[PrecOf(b, rule)] : o.rule = rule).assoc

\* the operator symbols of value.rs: OP_ADD, OP_SUB, ...
OpSymbol(rule) ==
    CASE rule = "op_add" -> S("+")
      [] rule = "op_sub" -> S("-")
      [] rule = "op_mul" -> S("*")
      [] rule = "op_div" -> S("/")
      [] rule = "op_eq" -> S("==")
      [] rule = "op_ne" -> S("!=")
      [] rule = "op_or" -> S("||")
      [] rule = "op_and" -> S("&&")
      [] rule = "op_mod" -> S("%")
      [] rule = "op_gt" -> S(">")
      [] rule = "op_ge" -> S(">=")
      [] rule = "op_lt" -> S("<")
      [] rule = "op_le" -> S("<=")
      [] rule = "op_pow" -> S("**")
      [] rule = "op_coalesce" -> S("~~")
      [] OTHER -> S("unreachable")

\* the operator names of query.rs
OpName(rule) ==
    CASE rule = "op_add" -> "Add"
      [] rule = "op_sub" -> "Sub"
      [] rule = "op_mul" -> "Mul"
      [] rule = "op_div" -> "Div"
      [] rule = "op_mod" -> "Mod"
      [] rule = "op_pow" -> "Pow"
      [] rule = "op_eq" -> "Eq"
      [] rule = "op_ne" -> "Neq"
      [] rule = "op_gt" -> "Gt"
      [] rule = "op_ge" -> "Ge"
      [] rule = "op_lt" -> "Lt"
      [] rule = "op_le" -> "Le"
      [] rule = "op_str_cat" -> "StrCat"
      [] rule = "op_or" -> "Or"
      [] rule = "op_and" -> "And"
      [] OTHER -> "unreachable"

\* the two build_expr_infix: lhs?, rhs?, then the node of the operator; a
\* panic raised while an operand was built has ended the call
build_expr_infix(b, lhs, op, rhs) ==
    IF lhs.tag = "Panic" THEN lhs
    ELSE IF rhs.tag = "Panic" THEN rhs
    ELSE IF lhs.tag = "Err" THEN lhs
    ELSE IF rhs.tag = "Err" THEN rhs
    ELSE IF b = "value"
    THEN IF OpSymbol(op.rule) = S("unreachable") THEN Panic("unreachable")
         ELSE Ok(VApply(OpSymbol(op.rule), <<lhs.val, rhs.val>>))
    ELSE IF OpName(op.rule) = "unreachable" THEN Panic("unreachable")
         ELSE Ok(JOp(OpName(op.rule), <<lhs.val, rhs.val>>))

\* BTreeMap::insert on the entries of a Dict
RECURSIVE DictInsert(_, _, _)
DictInsert(d, k, v) ==
    IF d = <<>> THEN <<<<k, v>>>>
    ELSE IF StrCmp(k, Head(d)[1]) = "Less" THEN <<<<k, v>>>> \o d
    ELSE IF StrCmp(k, Head(d)[1]) = "Equal" THEN <<<<k, v>>>> \o Tail(d)
    ELSE <<Head(d)>> \o DictInsert(Tail(d), k, v)

\* what a climb returns: the value so far and the pairs not yet taken
Climbed(val, rest) == [val |-> val, rest |-> rest]

RECURSIVE climb(_, _)
RECURSIVE climb_rec(_, _, _, _)
RECURSIVE ClimbRhs(_, _, _, _)
RECURSIVE build_expr_primary(_)
RECURSIVE build_unary(_)
RECURSIVE CollectList(_, _, _)
RECURSIVE CollectDict(_, _)

\* Value::from_pair
from_pair(pair) == climb("value", pair.inner)

\* build_expr of query.rs
build_expr(pair) == climb("query", pair.inner)

\* the primary callback of each climber
Primary(b, pair) ==
    IF b = "value" THEN build_expr_primary(pair) ELSE build_unary(pair)

\* PrecClimber::climb: the first primary, then climb_rec from precedence 0
climb(b, pairs) ==
    IF pairs = <<>> THEN Panic("expect")
    ELSE Only({climb_rec(b, lhs, 0, Tail(pairs)).val
               : lhs \in {Primary(b, Head(pairs))}})

\* PrecClimber::climb_rec: while the next pair is an operator of the table
\* of precedence at least min_prec, take it and its right operand and
\* fold; a pair that is no operator of the table ends the climb
climb_rec(b, lhs, min_prec, pairs) ==
    IF \/ pairs = <<>>
       \/ Head(pairs).rule \notin ClimberOps(b)
       \/ PrecOf(b, Head(pairs).rule) < min_prec
    THEN Climbed(lhs, pairs)
    ELSE IF Len(pairs) < 2
    THEN Climbed(IF lhs.tag = "Panic" THEN lhs ELSE Panic("expect"), <<>>)
    ELSE Only({Only({Only({climb_rec(b, folded, min_prec, r.rest)
                           : folded \in {build_expr_infix(b, lhs, Head(pairs),
                                                          r.val)}})
                     : r \in {ClimbRhs(b, PrecOf(b, Head(pairs).rule), rhs,
                                       Drop(pairs, 2))}})
               : rhs \in {Primary(b, pairs[2])}})

\* the inner loop of climb_rec: the right operand takes the operators that
\* bind tighter, and those of its own level when they associate to the right
ClimbRhs(b, prec, rhs, pairs) ==
    IF pairs = <<>> \/ Head(pairs).rule \notin ClimberOps(b)
    THEN Climbed(rhs, pairs)
    ELSE LET new_prec == PrecOf(b, Head(pairs).rule)
             assoc    == AssocOf(b, Head(pairs).rule)
         IN  IF new_prec > prec \/ (assoc = "Right" /\ new_prec = prec)
             THEN Only({ClimbRhs(b, prec, r.val, r.rest)
                        : r \in {climb_rec(b, rhs, new_prec, pairs)}})
             ELSE Climbed(rhs, pairs)

\* .map(f).collect::<Result<Vec<_>>>(): the elements in order, up to the
\* first that fails
CollectList(b, items, acc) ==
    IF items = <<>> THEN Ok(acc)
    ELSE Only({IF r.tag # "Ok" THEN r
               ELSE CollectList(b, Tail(items), Append(acc, r.val))
               : r \in {IF b = "value" THEN build_expr_primary(Head(items))
                        ELSE build_expr(Head(items))}})

\* the entries of Rule::dict collected into a BTreeMap
CollectDict(items, acc) ==
    IF items = <<>> THEN Ok(acc)
    ELSE IF Head(items).rule # "dict_pair" THEN Panic("todo")
    ELSE IF Len(Head(items).inner) < 2 THEN Panic("unwrap")
    ELSE Only({IF name.tag # "Ok" THEN name
               ELSE Only({IF val.tag # "Ok" THEN val
                          ELSE CollectDict(Tail(items),
                                           DictInsert(acc, name.val, val.val))
                          : val \in {build_expr_primary(Head(items).inner[2])}})
               : name \in {parse_string(Head(items).inner[1])}})

\* build_expr_primary of value.rs
build_expr_primary(pair) ==
    CASE pair.rule \in {"expr", "term"} ->
            IF pair.inner = <<>> THEN Panic("unwrap")
            ELSE build_expr_primary(pair.inner[1])
      [] pair.rule = "grouping" ->
            IF pair.inner = <<>> THEN Panic("unwrap")
            ELSE from_pair(pair.inner[1])
      [] pair.rule = "unary" ->
            IF Len(pair.inner) < 2 THEN Panic("unwrap")
            ELSE Only({IF term.tag # "Ok" THEN term
                       ELSE IF pair.inner[1].rule = "negate"
                       THEN Ok(VApply(S("!"), <<term.val>>))
                       ELSE IF pair.inner[1].rule = "minus"
                       THEN Ok(VApply(S("--"), <<term.val>>))
                       ELSE Panic("unreachable")
                       : term \in {build_expr_primary(pair.inner[2])}})
      [] pair.rule = "pos_int" ->
            Only({IF i.tag = "Ok" THEN Ok(VInt(i.val)) ELSE i
                  : i \in {ParseI64(StripUnderscores(pair.str))}})
      [] pair.rule = "hex_pos_int" -> Ok(VInt(parse_int(pair.str, 16)))
      [] pair.rule = "octo_pos_int" -> Ok(VInt(parse_int(pair.str, 8)))
      [] pair.rule = "bin_pos_int" -> Ok(VInt(parse_int(pair.str, 2)))
      [] pair.rule \in {"dot_float", "sci_float"} ->
            Only({IF f.tag = "Ok" THEN Ok(VFloat(f.val[1], f.val[2])) ELSE f
                  : f \in {ParseF64(StripUnderscores(pair.str))}})
      [] pair.rule = "null" -> Ok(VNull)
      [] pair.rule = "boolean" -> Ok(VBool(pair.str = <<"t", "r", "u", "e">>))
      [] pair.rule \in {"quoted_string", "s_quoted_string", "raw_string"} ->
            Only({IF t.tag = "Ok" THEN Ok(VText(t.val)) ELSE t
                  : t \in {parse_string(pair)}})
      [] pair.rule = "list" ->
            Only({IF l.tag = "Ok" THEN Ok(VList(l.val)) ELSE l
                  : l \in {CollectList("value", pair.inner, <<>>)}})
      [] pair.rule = "dict" ->
            Only({IF d.tag = "Ok" THEN Ok(VDict(d.val)) ELSE d
                  : d \in {CollectDict(pair.inner, <<>>)}})
      [] pair.rule \in {"param", "ident"} -> Ok(VVariable(pair.str))
      [] OTHER -> Panic("unimplemented")

\* the arm Rule::unary of build_unary: the first inner pair decides
UnaryArm(s, inner) ==
    LET p  == inner[1]
        op == inner[1].rule
    IN  CASE op = "term" -> build_unary(p)
          [] op = "var" -> Ok(JString(s))
          [] op = "param" -> Ok(JObject(S("param") :> JString(s)))
          [] op \in {"minus", "negate"} ->
                IF Len(inner) < 2 THEN Panic("unwrap")
                ELSE Only({IF r.tag # "Ok" THEN r
                           ELSE Ok(JOp(IF op = "minus" THEN "Minus"
                                       ELSE "Negate",
                                       <<r.val>>))
                           : r \in {build_unary(inner[2])}})
          [] op = "pos_int" ->
                Only({IF i.tag = "Ok" THEN Ok(JInt(i.val)) ELSE i
                      : i \in {ParseI64(StripUnderscores(s))}})
          [] op = "hex_pos_int" -> Ok(JInt(parse_int(s, 16)))
          [] op = "octo_pos_int" -> Ok(JInt(parse_int(s, 8)))
          [] op = "bin_pos_int" -> Ok(JInt(parse_int(s, 2)))
          [] op \in {"dot_float", "sci_float"} ->
                Only({IF f.tag = "Ok" THEN Ok(JFloat(f.val[1], f.val[2])) ELSE f
                      : f \in {ParseF64(StripUnderscores(s))}})
          [] op = "null" -> Ok(JNull)
          [] op = "boolean" -> Ok(JBool(s = <<"t", "r", "u", "e">>))
          [] op \in {"quoted_string", "s_quoted_string", "raw_string"} ->
                Only({IF t.tag = "Ok" THEN Ok(JString(t.val)) ELSE t
                      : t \in {parse_string(p)}})
          [] op = "list" ->
                Only({IF l.tag = "Ok" THEN Ok(JArray(l.val)) ELSE l
                      : l \in {CollectList("query", p.inner, <<>>)}})
          [] OTHER -> Panic("unreachable")

\* build_unary of query.rs
build_unary(pair) ==
    CASE pair.rule = "expr" ->
            IF pair.inner = <<>> THEN Panic("unwrap")
            ELSE build_unary(pair.inner[1])
      [] pair.rule = "grouping" ->
            IF pair.inner = <<>> THEN Panic("unwrap")
            ELSE build_expr(pair.inner[1])
      [] pair.rule = "unary" ->
            IF pair.inner = <<>> THEN Panic("unwrap")
            ELSE UnaryArm(pair.str, pair.inner)
      [] OTHER -> Panic("unimplemented")

----------------------------------------------------------------------------
(* Value: is_evaluated, the round trip through Display *)

\* Value::is_evaluated
RECURSIVE is_evaluated(_)
is_evaluated(v) ==
    CASE v.kind \in {"Null", "Bool", "UInt", "Int", "Float", "Uuid", "Text",
                     "EndSentinel"} -> TRUE
      [] v.kind = "List" -> \A i \in DOMAIN v.args : is_evaluated(v.args[i])
      [] v.kind = "Dict" -> \A i \in DOMAIN v.args : is_evaluated(v.args[i][2])
      [] v.kind = "Variable" -> FALSE
      [] OTHER -> FALSE

\* tests::parse_expr_from_str and its CozoScript counterpart: the text is
\* matched against expr as a whole, then handed to the builder
parse_expression(b, text) ==
    Only({IF ~m.ok \/ m.rest # <<>> THEN Err("Parse")
          ELSE IF b = "value" THEN from_pair(m.pair)
          ELSE build_expr(m.pair)
          : m \in {GExpr(b, ClimberOps(b), text)}})

\* the elements of the lists and the values of the dicts at hand
Elems ==
    {VNull, VBool(TRUE), VInt(1), VFloat(15, -1), VText(<<"a", "\"">>),
     VList(<<>>), VList(<<VInt(2), VText(<<>>)>>), VDict(<<>>),
     VDict(<<<<<<"b">>, VInt(0)>>>>)}

\* the dicts with the given keys, in key order
RECURSIVE DictsOver(_)
DictsOver(keys) ==
    IF keys = <<>> THEN {<<>>}
    ELSE {<<<<Head(keys), v>>>> \o d : v \in Elems, d \in DictsOver(Tail(keys))}

DictKeys == {<<>>, <<<<"a">>>>, <<<<"/">>, <<"a">>>>, <<<<"a">>, <<"a", "b">>>>}

\* the evaluated values: the primitives, lists and dicts of them
Evaluated ==
    Prims
    \cup {VList(l) : l \in SeqsUpTo(Elems, MaxListLen)}
    \cup {VDict(d) : d \in UNION {DictsOver(k) : k \in DictKeys}}

\* v.to_string() is handed to the expression parser
FmtParseCall ==
    /\ vOp = "none"
    /\ \E v \in Evaluated :
        /\ vOp' = "fmt"
        /\ vA' = v
        /\ vB' = Display(v)
        /\ vRes' = parse_expression("value", Display(v))

\* C13: round trip: for every evaluated Value v, parsing the text that
\* Display writes for v gives back v (the floats at hand are normalized).
C13_DisplayParseRoundTrip ==
    (vOp = "fmt" /\ is_evaluated(vA)) => (vRes.tag = "Ok" /\ vRes.val = vA)

----------------------------------------------------------------------------
(* The expression builders: the calls *)

\* the texts of operands: a parameter, a variable, literals, signed
\* operands, a grouping, lists, a dict
Atoms == {<<"$", "a">>, <<"?", "b">>, <<"1">>}

Operands ==
    Atoms
    \cup {<<"n", "u", "l", "l">>, <<"\"", "?", "b", "\"">>, <<"1", ".", "5">>,
          <<"!", "$", "a">>, <<"-", "1">>,
          <<"(", "$", "a", "+", "1", ")">>,
          <<"[", "1", "]">>, <<"[", "$", "a", "]">>,
          <<"[", "1", "+", "$", "a", "]">>,
          <<"{", "\"", "a", "\"", ":", "1", "}">>,
          <<"{", "\"", "a", "\"", ":", "?", "b", "}">>}

OpTexts == {o[1] : o \in OpSymbols}

\* the token sequences: operands separated by binary operators
TokenSeqs ==
    {<<x>> : x \in Operands}
    \cup {<<x, o, y>> : x \in Operands, o \in OpTexts, y \in Operands}
    \cup {<<x, o, y, p, z>> : x \in Atoms, o \in OpTexts, y \in Atoms,
                              p \in OpTexts, z \in Atoms}

\* the text of a token sequence
RECURSIVE Concat(_)
Concat(toks) == IF toks = <<>> THEN <<>> ELSE Head(toks) \o Concat(Tail(toks))

\* pairs of every kind of rule, as a builder may be handed them
RulePairs ==
    {Pair(r, <<"1">>, <<>>) :
        r \in {"pos_int", "hex_pos_int", "null", "boolean", "param", "ident",
               "var", "term", "expr", "unary", "grouping", "list", "dict",
               "dict_pair", "op_add", "minus", "EOI"}}
    \cup {Pair(r, <<"1">>, <<Pair(q, <<"1">>, <<>>)>>) :
            r \in {"term", "expr", "unary", "list", "dict"},
            q \in {"pos_int", "var", "term", "dict", "dict_pair", "apply"}}

NoRes == Res("None", "", <<>>)

ExprIn(kind, tokens, pair) == [kind |-> kind, tokens |-> tokens, pair |-> pair]

ExprInit ==
    /\ eIn = ExprIn("none", <<>>, NoPair)
    /\ eValue = NoRes
    /\ eJson = NoRes

\* the text of a token sequence is parsed by both front ends
ExprCall ==
    /\ eIn.kind = "none"
    /\ \E toks \in TokenSeqs :
        /\ eIn' = ExprIn("tokens", toks, NoPair)
        /\ eValue' = parse_expression("value", Concat(toks))
        /\ eJson' = parse_expression("query", Concat(toks))

\* a pair is handed to the primary callback of each builder
PrimaryCall ==
    /\ eIn.kind = "none"
    /\ \E pair \in RulePairs :
        /\ eIn' = ExprIn("pair", <<>>, pair)
        /\ eValue' = build_expr_primary(pair)
        /\ eJson' = build_unary(pair)

----------------------------------------------------------------------------
(* The expression builders: properties *)

\* the rule of an operator symbol
RuleOf(sym) == (CHOOSE o \in OpSymbols : o[1] = sym)[2]

\* the level of an operator in the table of the language description
Level(rule) ==
    CASE rule = "op_or" -> 1
      [] rule = "op_and" -> 2
      [] rule \in {"op_gt", "op_lt", "op_ge", "op_le"} -> 3
      [] rule = "op_mod" -> 4
      [] rule \in {"op_eq", "op_ne"} -> 5
      [] rule \in {"op_add", "op_sub", "op_str_cat"} -> 6
      [] rule \in {"op_mul", "op_div"} -> 7
      [] rule = "op_pow" -> 8
      [] OTHER -> 9

\* the operators of each grammar: ~~ is of the value grammar only, string
\* concatenation of the CozoScript grammar only
InGrammar(b, rule) ==
    IF b = "value" THEN rule # "op_str_cat" ELSE rule # "op_coalesce"

\* the node either builder makes of an operator and two operands
Node(b, rule, x, y) ==
    IF b = "value" THEN VApply(OpSymbol(rule), <<x, y>>)
    ELSE JOp(OpName(rule), <<x, y>>)

\* x o1 y o2 z grouped by the level table: to the right when o2 is of a
\* higher level than o1, or of the same level as o1 = **; else to the left
Grouped(b, toks) ==
    LET x  == parse_expression(b, toks[1]).val
        y  == parse_expression(b, toks[3]).val
        z  == parse_expression(b, toks[5]).val
        o1 == RuleOf(toks[2])
        o2 == RuleOf(toks[4])
    IN  IF Level(o2) > Level(o1) \/ (Level(o2) = Level(o1) /\ o1 = "op_pow")
        THEN Node(b, o1, x, Node(b, o2, y, z))
        ELSE Node(b, o2, Node(b, o1, x, y), z)

Built(b) == IF b = "value" THEN eValue ELSE eJson

RECURSIVE HasVariableOrApply(_)
HasVariableOrApply(v) ==
    \/ v.kind \in {"Variable", "Apply"}
    \/ v.kind = "List" /\ \E i \in DOMAIN v.args : HasVariableOrApply(v.args[i])
    \/ v.kind = "Dict" /\ \E i \in DOMAIN v.args : HasVariableOrApply(v.args[i][2])

\* the operand texts with neither an identifier nor an operator
PlainLiterals ==
    {<<"1">>, <<"n", "u", "l", "l">>, <<"\"", "?", "b", "\"">>,
     <<"1", ".", "5">>, <<"[", "1", "]">>,
     <<"{", "\"", "a", "\"", ":", "1", "}">>}

\* the text of the token sequence holds an identifier or an operator
MentionsIdentOrOp(toks) == Len(toks) > 1 \/ toks[1] \notin PlainLiterals

\* C15: is_evaluated(v) is false exactly when v or a node nested in v at
\* any depth, through List elements and Dict values, is a Variable or an
\* Apply; in particular the Value parsed from a text that holds an
\* identifier or an operator is not evaluated.
C15_IsEvaluated ==
    (eIn.kind = "tokens" /\ eValue.tag = "Ok") =>
        /\ ~is_evaluated(eValue.val) <=> HasVariableOrApply(eValue.val)
        /\ MentionsIdentOrOp(eIn.tokens) => ~is_evaluated(eValue.val)

\* the capitalized name that stands for an operator symbol
NameOfSymbol(sym) ==
    IF sym = S("!") THEN "Negate"
    ELSE IF sym = S("--") THEN "Minus"
    ELSE IF \E o \in OpSymbols : OpSymbol(o[2]) = sym /\ OpName(o[2]) # "unreachable"
    THEN OpName((CHOOSE o \in OpSymbols : OpSymbol(o[2]) = sym)[2])
    ELSE "none"

\* a Value tree and a JSON AST of the same structure: literal for
\* literal, a Variable for a variable string or a param object, an Apply
\* for the op object of the corresponding name, children in order
RECURSIVE Iso(_, _)
Iso(v, j) ==
    CASE v.kind = "Null" -> j.j = "Null"
      [] v.kind = "Bool" -> j.j = "Bool" /\ j.bool = v.bool
      [] v.kind = "Int" -> j.j = "Int" /\ j.num = v.num
      [] v.kind = "Float" -> j.j = "Float" /\ j.num = v.num /\ j.exp = v.exp
      [] v.kind = "Text" -> j.j = "String" /\ j.str = v.str
      [] v.kind = "List" ->
            /\ j.j = "Array"
            /\ Len(j.items) = Len(v.args)
            /\ \A i \in DOMAIN v.args : Iso(v.args[i], j.items[i])
      [] v.kind = "Dict" ->
            /\ j.j = "Object"
            /\ DOMAIN j.obj = {v.args[i][1] : i \in DOMAIN v.args}
            /\ \A i \in DOMAIN v.args : Iso(v.args[i][2], j.obj[v.args[i][1]])
      [] v.kind = "Variable" ->
            \/ j.j = "String" /\ j.str = v.str
            \/ j = JObject(S("param") :> JString(v.str))
      [] v.kind = "Apply" ->
            /\ j.j = "Object"
            /\ DOMAIN j.obj = {S("op"), S("args")}
            /\ j.obj[S("op")] = JString(S(NameOfSymbol(v.str)))
            /\ Len(j.obj[S("args")].items) = Len(v.args)
            /\ \A i \in DOMAIN v.args : Iso(v.args[i], j.obj[S("args")].items[i])
      [] OTHER -> FALSE

\* C16: the two expression representations are isomorphic modulo naming:
\* a text is accepted by both builders or by neither, and the Value tree
\* and the JSON AST built from it have the same structure, each operator
\* symbol of the one standing for one operator name of the other.
C16_BuildersIsomorphic ==
    eIn.kind = "tokens" =>
        /\ eValue.tag = "Ok" <=> eJson.tag = "Ok"
        /\ (eValue.tag = "Ok" /\ eJson.tag = "Ok") => Iso(eValue.val, eJson.val)

\* C17: a rule the builders do not handle gives a returned error, never a
\* panic: for a pair of any rule, build_expr_primary and build_unary
\* return Ok or Err.
C17_UnknownRuleIsError ==
    eIn.kind = "pair" =>
        /\ eValue.tag \in {"Ok", "Err"}
        /\ eJson.tag \in {"Ok", "Err"}

----------------------------------------------------------------------------
(* parse_pull_arg *)

RECURSIVE CallOn(_, _)

\* variant: a key already present keeps its value
ObjInsertIfAbsent(obj, k, v) == obj @@ (k :> v)

\* Map::insert
ObjInsert(obj, k, v) == (k :> v) @@ obj

\* usize::from_str of a literal without separators; a literal of more than
\* twenty digits is beyond usize
str2usize(src) ==
    Only({IF s = <<>> \/ \E i \in DOMAIN s : s[i] \notin Digits \/ Len(s) > 20
          THEN Err("ParseIntError")
          ELSE Ok(DigitsToNat(s, 10))
          : s \in {StripUnderscores(src)}})

\* if !ret.is_object() { ret = json!({ "pull": ret }) }
Promote(ret) == IF ret.j # "Object" THEN JObject(S("pull") :> ret) ELSE ret

\* the key under which a modifier is inserted
ModifierKey(rule) ==
    CASE rule = "pull_as" -> S("as")
      [] rule = "pull_limit" -> S("limit")
      [] rule = "pull_offset" -> S("offset")
      [] rule = "pull_default" -> S("default")
      [] rule = "pull_recurse" -> S("recurse")
      [] rule = "pull_depth" -> S("depth")
      [] OTHER -> S("unreachable")

\* the value a modifier inserts
ModifierValue(modifier) ==
    IF ModifierKey(modifier.rule) = S("unreachable") THEN Panic("unreachable")
    ELSE IF modifier.inner = <<>> THEN Panic("unwrap")
    ELSE IF modifier.rule = "pull_as" THEN Ok(JString(modifier.inner[1].str))
    ELSE IF modifier.rule \in {"pull_default", "pull_recurse"}
    THEN CallOn("build_expr", modifier.inner[1])
    ELSE Only({IF n.tag = "Ok" THEN Ok(JInt(n.val)) ELSE n
               : n \in {str2usize(modifier.inner[1].str)}})

\* for modifier in src: promote, then insert the modifier's key
RECURSIVE ApplyModifiers(_, _)
ApplyModifiers(ret, mods) ==
    IF mods = <<>> THEN Ok(ret)
    ELSE Only({IF v.tag # "Ok" THEN v
               ELSE ApplyModifiers(
                       JObject(ObjInsert(Promote(ret).obj,
                                         ModifierKey(Head(mods).rule), v.val)),
                       Tail(mods))
               : v \in {ModifierValue(Head(mods))}})

RECURSIVE parse_pull_arg(_)
RECURSIVE CollectPullArgs(_, _)

\* args.into_inner().map(parse_pull_arg).try_collect()
CollectPullArgs(items, acc) ==
    IF items = <<>> THEN Ok(acc)
    ELSE Only({IF r.tag # "Ok" THEN r
               ELSE CollectPullArgs(Tail(items), Append(acc, r.val))
               : r \in {parse_pull_arg(Head(items))}})

\* the match on pull_def: "*", "_id", or the attribute with its nested spec
PullDef(pull_def) ==
    CASE pull_def.rule = "pull_all" -> Ok(JString(S("*")))
      [] pull_def.rule = "pull_id" -> Ok(JString(S("_id")))
      [] pull_def.rule = "pull_attr" ->
            IF pull_def.inner = <<>> THEN Panic("unwrap")
            ELSE IF Len(pull_def.inner) < 2
            THEN Ok(JString(pull_def.inner[1].str))
            ELSE Only({IF args.tag # "Ok" THEN args
                       ELSE IF args.val = <<>>
                       THEN Ok(JString(pull_def.inner[1].str))
                       ELSE Ok(JObject(ObjInsert(
                                  Promote(JString(pull_def.inner[1].str)).obj,
                                  S("spec"), JArray(args.val))))
                       : args \in {CollectPullArgs(pull_def.inner[2].inner,
                                                   <<>>)}})
      [] OTHER -> Panic("unreachable")

\* parse_pull_arg
parse_pull_arg(src) ==
    IF src.inner = <<>> THEN Panic("unwrap")
    ELSE Only({IF ret.tag # "Ok" THEN ret
               ELSE ApplyModifiers(ret.val, Tail(src.inner))
               : ret \in {PullDef(Head(src.inner))}})

\* pairs without inner pairs
Leaf(rule, str) == Pair(rule, str, <<>>)

\* a literal beyond usize: twenty-one digits
HugeLiteral == Zeros(20) \o <<"1">>

\* the expr pair of a text of the CozoScript grammar
ExprPair(text) == GExpr("query", ClimberOps("query"), text).pair

Modifiers ==
    {Pair("pull_as", <<>>, <<Leaf("ident", n)>>) : n \in {<<"a">>, <<"b">>}}
    \cup {Pair("pull_limit", <<>>, <<Leaf("pos_int", n)>>) :
             n \in {<<"1">>, <<"1", "_", "0">>, HugeLiteral}}
    \cup {Pair("pull_offset", <<>>, <<Leaf("pos_int", <<"2">>)>>),
          Pair("pull_depth", <<>>, <<Leaf("pos_int", <<"3">>)>>),
          Pair("pull_default", <<>>, <<ExprPair(<<"1", "+", "?", "b">>)>>),
          Pair("pull_recurse", <<>>, <<ExprPair(<<"?", "b">>)>>)}

\* a pull_arg pair: its pull_def, then its modifiers
PullArgPair(def, mods) == Pair("pull_arg", <<>>, <<def>> \o mods)

NestedArgs ==
    {<<>>,
     <<PullArgPair(Leaf("pull_id", <<"_", "i", "d">>), <<>>),
       PullArgPair(Pair("pull_attr", <<>>, <<Leaf("ident", <<"b">>)>>),
                   <<Pair("pull_as", <<>>, <<Leaf("ident", <<"a">>)>>)>>)>>}

PullDefs ==
    {Leaf("pull_all", <<"*">>), Leaf("pull_id", <<"_", "i", "d">>),
     Pair("pull_attr", <<>>, <<Leaf("ident", <<"a">>)>>)}
    \cup {Pair("pull_attr", <<>>,
               <<Leaf("ident", <<"a">>), Pair("pull_args", <<>>, nested)>>) :
             nested \in NestedArgs}

PullInit ==
    /\ pIn = NoPair
    /\ pOut = NoRes

\* parse_pull_arg is called on a pull_arg pair
PullArgCall ==
    /\ pOut.tag = "None"
    /\ \E def \in PullDefs, mods \in SeqsUpTo(Modifiers, MaxMods) :
        /\ pIn' = PullArgPair(def, mods)
        /\ pOut' = parse_pull_arg(PullArgPair(def, mods))

\* the bare string of a pull_def
BareString(def) ==
    IF def.rule = "pull_all" THEN S("*")
    ELSE IF def.rule = "pull_id" THEN S("_id")
    ELSE def.inner[1].str

\* the nested pull args of a pull_def
NestedOf(def) ==
    IF def.rule = "pull_attr" /\ Len(def.inner) >= 2 THEN def.inner[2].inner
    ELSE <<>>

----------------------------------------------------------------------------
(* parsed_to_json *)

\* iter.map(f).try_collect() over pairs: the first failure ends it
RECURSIVE TryCollect(_, _, _)
TryCollect(f, items, acc) ==
    IF items = <<>> THEN Ok(acc)
    ELSE Only({IF r.tag # "Ok" THEN r
               ELSE TryCollect(f, Tail(items), Append(acc, r.val))
               : r \in {CallOn(f, Head(items))}})

\* parse_rule_head_arg
parse_rule_head_arg(src) ==
    IF src.inner = <<>> THEN Panic("unwrap")
    ELSE LET arg == src.inner[1]
         IN  CASE arg.rule = "var" -> Ok(JString(arg.str))
               [] arg.rule = "aggr_arg" ->
                     IF Len(arg.inner) < 2 THEN Panic("unwrap")
                     ELSE Ok(JObject((S("aggr") :> JString(arg.inner[1].str))
                                     @@ (S("symb") :> JString(arg.inner[2].str))))
               [] OTHER -> Panic("unreachable")

\* parse_triple_attr: the parts joined with "."
RECURSIVE JoinDot(_)
JoinDot(parts) ==
    IF parts = <<>> THEN <<>>
    ELSE IF Len(parts) = 1 THEN parts[1].str
    ELSE parts[1].str \o <<".">> \o JoinDot(Tail(parts))

parse_triple_attr(src) == Ok(JString(JoinDot(src.inner)))

\* parse_triple_arg
parse_triple_arg(src) ==
    CASE src.rule = "expr" -> CallOn("build_expr", src)
      [] src.rule = "triple_pull" ->
            IF Len(src.inner) < 2 THEN Panic("unwrap")
            ELSE Only({IF val.tag # "Ok" THEN val
                       ELSE Ok(JObject(src.inner[1].str :> val.val))
                       : val \in {CallOn("build_expr", src.inner[2])}})
      [] OTHER -> Panic("unreachable")

\* parse_triple
parse_triple(src) ==
    IF Len(src.inner) < 3 THEN Panic("unwrap")
    ELSE Only({IF e.tag # "Ok" THEN e
               ELSE Only({IF v.tag # "Ok" THEN v
                          ELSE Ok(JArray(<<e.val,
                                           parse_triple_attr(src.inner[2]).val,
                                           v.val>>))
                          : v \in {parse_triple_arg(src.inner[3])}})
               : e \in {parse_triple_arg(src.inner[1])}})

RECURSIVE parse_atom(_)
RECURSIVE parse_disjunction(_)

\* parse_disjunction: a single atom stands alone
parse_disjunction(src) ==
    Only({IF res.tag # "Ok" THEN res
          ELSE IF Len(res.val) = 1 THEN Ok(res.val[1])
          ELSE Ok(JObject(S("disj") :> JArray(res.val)))
          : res \in {TryCollect("parse_atom", src.inner, <<>>)}})

\* parse_atom
parse_atom(src) ==
    CASE src.rule = "grouped" ->
            Only({IF grouped.tag # "Ok" THEN grouped
                  ELSE Ok(JObject(S("conj") :> JArray(grouped.val)))
                  : grouped \in {TryCollect("parse_disjunction", src.inner,
                                            <<>>)}})
      [] src.rule = "triple" -> parse_triple(src)
      [] src.rule = "negation" ->
            IF src.inner = <<>> THEN Panic("unwrap")
            ELSE Only({IF inner.tag # "Ok" THEN inner
                       ELSE Ok(JObject(S("not_exists") :> inner.val))
                       : inner \in {parse_atom(src.inner[1])}})
      [] src.rule = "expr" -> CallOn("build_expr", src)
      [] src.rule = "unify" ->
            IF Len(src.inner) < 2 THEN Panic("unwrap")
            ELSE Only({IF expr.tag # "Ok" THEN expr
                       ELSE Ok(JObject((S("unify") :> JString(src.inner[1].str))
                                       @@ (S("expr") :> expr.val)))
                       : expr \in {CallOn("build_expr", src.inner[2])}})
      [] src.rule = "rule_apply" ->
            IF Len(src.inner) < 2 THEN Panic("unwrap")
            ELSE Only({IF args.tag # "Ok" THEN args
                       ELSE Ok(JObject((S("rule") :> JString(src.inner[1].str))
                                       @@ (S("args") :> JArray(args.val))))
                       : args \in {TryCollect("build_expr", src.inner[2].inner,
                                              <<>>)}})
      [] OTHER -> Panic("unreachable")

\* parse_pull_spec: {"pull": name, "spec": args}
parse_pull_spec(src) ==
    IF Len(src.inner) < 2 THEN Panic("unwrap")
    ELSE Only({IF args.tag # "Ok" THEN args
               ELSE Ok(JObject((S("pull") :> JString(src.inner[1].str))
                               @@ (S("spec") :> JArray(args.val))))
               : args \in {TryCollect("parse_pull_arg", src.inner[2].inner,
                                      <<>>)}})

\* one entry of an out_map_spec: the name and its pull spec
OutMapEntry(p) ==
    IF Len(p.inner) < 2 THEN Panic("unwrap")
    ELSE Only({IF spec.tag # "Ok" THEN spec
               ELSE Ok(<<p.inner[1].str, spec.val>>)
               : spec \in {CallOn("parse_pull_spec", p.inner[2])}})

\* parse_rule_head: the name and the array of head args
parse_rule_head(src) ==
    IF src.inner = <<>> THEN Panic("unwrap")
    ELSE Only({IF args.tag # "Ok" THEN args
               ELSE Ok(<<src.inner[1].str, JArray(args.val)>>)
               : args \in {TryCollect("parse_rule_head_arg", Tail(src.inner),
                                      <<>>)}})

\* parse_rule: {"rule": name, "args": [head, clauses..]}, with "at" when
\* the rule carries an expression before its body
parse_rule(src) ==
    IF Len(src.inner) < 2 THEN Panic("unwrap")
    ELSE Only({
      IF head.tag # "Ok" THEN head
      ELSE IF src.inner[2].rule # "expr"
      THEN Only({IF clauses.tag # "Ok" THEN clauses
                 ELSE Ok(JObject((S("rule") :> JString(head.val[1]))
                                 @@ (S("args") :> JArray(clauses.val))))
                 : clauses \in {TryCollect("parse_disjunction",
                                           src.inner[2].inner,
                                           <<head.val[2]>>)}})
      ELSE Only({
        IF at.tag # "Ok" THEN at
        ELSE IF Len(src.inner) < 3 THEN Panic("unwrap")
        ELSE Only({IF clauses.tag # "Ok" THEN clauses
                   ELSE Ok(JObject(ObjInsert(
                              (S("rule") :> JString(head.val[1]))
                              @@ (S("args") :> JArray(clauses.val)),
                              S("at"), at.val)))
                   : clauses \in {TryCollect("parse_disjunction",
                                             src.inner[3].inner,
                                             <<head.val[2]>>)}})
        : at \in {CallOn("build_expr", src.inner[2])}})
      : head \in {parse_rule_head(src.inner[1])}})

\* collecting (name, spec) entries into a Map: a later name overrides
RECURSIVE MapOf(_)
MapOf(entries) ==
    IF entries = <<>> THEN <<>>
    ELSE ObjInsert(MapOf(SubSeq(entries, 1, Len(entries) - 1)),
                   entries[Len(entries)][1], entries[Len(entries)][2])

\* parse_out_option
parse_out_option(src) ==
    CASE src.rule = "out_list_spec" ->
            Only({IF l.tag # "Ok" THEN l ELSE Ok(JArray(l.val))
                  : l \in {TryCollect("parse_pull_spec", src.inner, <<>>)}})
      [] src.rule = "out_map_spec" ->
            Only({IF m.tag # "Ok" THEN m ELSE Ok(JObject(MapOf(m.val)))
                  : m \in {TryCollect("out_map_entry", src.inner, <<>>)}})
      [] OTHER -> Panic("unreachable")

\* the functions of query.rs that take a pair, by name: a function calls
\* another one, and an iterator maps one over its pairs, through CallOn
CallOn(f, pair) ==
    CASE f = "build_expr" -> build_expr(pair)
      [] f = "parse_atom" -> parse_atom(pair)
      [] f = "parse_disjunction" -> parse_disjunction(pair)
      [] f = "parse_rule_head_arg" -> parse_rule_head_arg(pair)
      [] f = "parse_rule" -> parse_rule(pair)
      [] f = "parse_pull_arg" -> parse_pull_arg(pair)
      [] f = "parse_pull_spec" -> parse_pull_spec(pair)
      [] f = "out_map_entry" -> OutMapEntry(pair)
      [] f = "parse_out_option" -> parse_out_option(pair)

\* parse_limit_or_offset
parse_limit_or_offset(src) ==
    IF src.inner = <<>> THEN Panic("unwrap") ELSE str2usize(src.inner[1].str)

\* one part of a sort option: {var: dir}, dir "asc" unless sort_desc
RECURSIVE SortPart(_, _, _)
SortPart(items, var, dir) ==
    IF items = <<>> THEN Ok(JObject(var :> JString(S(dir))))
    ELSE CASE Head(items).rule = "var" ->
                 SortPart(Tail(items), Head(items).str, dir)
           [] Head(items).rule = "sort_asc" -> SortPart(Tail(items), var, "asc")
           [] Head(items).rule = "sort_desc" -> SortPart(Tail(items), var, "desc")
           [] OTHER -> Panic("unreachable")

RECURSIVE SortParts(_, _)
SortParts(parts, collected) ==
    IF parts = <<>> THEN Ok(collected)
    ELSE Only({IF p.tag # "Ok" THEN p
               ELSE SortParts(Tail(parts), Append(collected, p.val))
               : p \in {SortPart(Head(parts).inner, <<>>, "asc")}})

\* the locals of parsed_to_json
QMap(ret_map, rules, const_rules) ==
    [ret_map |-> ret_map, rules |-> rules, const_rules |-> const_rules]

\* variant: a later declaration replaces the entries
ExtendReplace(entries, data) == data

\* entries.extend_from_slice(data)
extend_from_slice(entries, data) == entries \o data

\* the const_rule arm
ConstRule(pair, m) ==
    IF Len(pair.inner) < 2 THEN Panic("unwrap")
    ELSE Only({
      IF data.tag # "Ok" THEN data
      ELSE IF data.val.j # "Array"
      THEN Err("expect const rules to be specified as an array")
      ELSE Only({Ok(QMap(m.ret_map, m.rules,
                         ObjInsert(m.const_rules, pair.inner[1].str,
                                   JArray(extend_from_slice(entries,
                                                            data.val.items)))))
                 : entries \in {IF pair.inner[1].str \in DOMAIN m.const_rules
                                THEN m.const_rules[pair.inner[1].str].items
                                ELSE <<>>}})
      : data \in {CallOn("build_expr", pair.inner[2])}})

\* variant: an option already declared keeps its value
RetInsertOnce(m, key, value) ==
    IF value.tag # "Ok" THEN value
    ELSE Ok(QMap(m.ret_map @@ (S(key) :> value.val), m.rules, m.const_rules))

\* ret_map.insert(key, value?)
RetInsert(m, key, value) ==
    IF value.tag # "Ok" THEN value
    ELSE Ok(QMap(ObjInsert(m.ret_map, S(key), value.val), m.rules, m.const_rules))

\* the body of the for loop of parsed_to_json on one pair
Statement(pair, m) ==
    CASE pair.rule = "rule" ->
            Only({IF r.tag # "Ok" THEN r
                  ELSE Ok(QMap(m.ret_map, Append(m.rules, r.val), m.const_rules))
                  : r \in {CallOn("parse_rule", pair)}})
      [] pair.rule = "const_rule" -> ConstRule(pair, m)
      [] pair.rule = "limit_option" ->
            Only({RetInsert(m, "limit",
                            IF n.tag = "Ok" THEN Ok(JInt(n.val)) ELSE n)
                  : n \in {parse_limit_or_offset(pair)}})
      [] pair.rule = "offset_option" ->
            Only({RetInsert(m, "offset",
                            IF n.tag = "Ok" THEN Ok(JInt(n.val)) ELSE n)
                  : n \in {parse_limit_or_offset(pair)}})
      [] pair.rule = "sort_option" ->
            Only({RetInsert(m, "sort",
                            IF c.tag = "Ok" THEN Ok(JArray(c.val)) ELSE c)
                  : c \in {SortParts(pair.inner, <<>>)}})
      [] pair.rule = "out_option" ->
            IF pair.inner = <<>> THEN Panic("unwrap")
            ELSE Only({RetInsert(m, "out", out)
                       : out \in {CallOn("parse_out_option", pair.inner[1])}})
      [] OTHER -> Panic("unreachable")

\* lines 77-79: const_rules and q are inserted last
Finish(m) ==
    JObject(ObjInsert(ObjInsert(m.ret_map, S("const_rules"),
                                JObject(m.const_rules)),
                      S("q"), JArray(m.rules)))

\* a const_rule pair: its name, then the expr of its data
ConstRulePair(name, text) ==
    Pair("const_rule", <<>>, <<Leaf("ident", name), ExprPair(text)>>)

ConstNames == {<<"x">>, <<"y">>}

\* "[1]", "[?b,1]" and, not an array, "1"
ConstData ==
    {<<"[", "1", "]">>, <<"[", "?", "b", ",", "1", "]">>, <<"1">>}

\* name[?a] := ?a
RulePairOf(name) ==
    Pair("rule", <<>>,
         <<Pair("rule_head", <<>>,
                <<Leaf("ident", name),
                  Pair("rule_head_arg", <<>>, <<Leaf("var", <<"?", "a">>)>>)>>),
           Pair("rule_body", <<>>,
                <<Pair("disjunction", <<>>, <<ExprPair(<<"?", "a">>)>>)>>)>>)

\* r[?a] := ?a
RulePair == RulePairOf(<<"r">>)

\* :sort -?a
SortPair ==
    Pair("sort_option", <<>>,
         <<Pair("sort_arg", <<>>,
                <<Leaf("var", <<"?", "a">>), Leaf("sort_desc", <<>>)>>)>>)

\* :out [?a {*}]
OutPair ==
    Pair("out_option", <<>>,
         <<Pair("out_list_spec", <<>>,
                <<Pair("pull_spec", <<>>,
                       <<Leaf("var", <<"?", "a">>),
                         Pair("pull_args", <<>>,
                              <<PullArgPair(Leaf("pull_all", <<"*">>),
                                            <<>>)>>)>>)>>)>>)

\* :sort ?b
SortPairAsc ==
    Pair("sort_option", <<>>,
         <<Pair("sort_arg", <<>>, <<Leaf("var", <<"?", "b">>)>>)>>)

\* :out {a: ?a {_id}}
OutPairMap ==
    Pair("out_option", <<>>,
         <<Pair("out_map_spec", <<>>,
                <<Pair("out_map_entry", <<>>,
                       <<Leaf("ident", <<"a">>),
                         Pair("pull_spec", <<>>,
                              <<Leaf("var", <<"?", "a">>),
                                Pair("pull_args", <<>>,
                                     <<PullArgPair(
                                          Leaf("pull_id", <<"_", "i", "d">>),
                                          <<>>)>>)>>)>>)>>)>>)

Statements ==
    {ConstRulePair(n, d) : n \in ConstNames, d \in ConstData}
    \cup {ConstRulePair(<<"x">>, <<"[", "]">>), RulePair,
          RulePairOf(<<"s">>), SortPair, SortPairAsc, OutPair, OutPairMap,
          Pair("limit_option", <<>>, <<Leaf("pos_int", <<"1">>)>>),
          Pair("limit_option", <<>>, <<Leaf("pos_int", <<"1", "_", "0">>)>>),
          Pair("limit_option", <<>>, <<Leaf("pos_int", HugeLiteral)>>),
          Pair("offset_option", <<>>, <<Leaf("pos_int", <<"2">>)>>)}

\* let mut ret_map, rules, const_rules
QInit ==
    /\ qPc = "loop"
    /\ qSeen = <<>>
    /\ qMap = QMap(<<>>, <<>>, <<>>)
    /\ qResult = NoRes

\* one turn of the for loop: the next pair of the script is a statement
QStatement ==
    /\ qPc = "loop"
    /\ Len(qSeen) < MaxStmts
    /\ \E pair \in Statements :
        \E r \in {Statement(pair, qMap)} :
            /\ qSeen' = Append(qSeen, pair)
            /\ IF r.tag = "Ok"
               THEN qMap' = r.val /\ UNCHANGED <<qPc, qResult>>
               ELSE /\ qPc' = "done"
                    /\ qResult' = Res(r.tag, r.err, <<>>)
                    /\ UNCHANGED qMap

\* the next pair is EOI: break, then lines 77-79
QReturn ==
    /\ qPc = "loop"
    /\ qPc' = "done"
    /\ qResult' = Ok(Finish(qMap))
    /\ UNCHANGED <<qSeen, qMap>>

IsConstRule(pair, n) ==
    pair.rule = "const_rule" /\ pair.inner[1].str = n

\* the concatenation, in source order, of the arrays declared under n
RECURSIVE Declared(_, _)
Declared(n, stmts) ==
    IF stmts = <<>> THEN <<>>
    ELSE IF IsConstRule(Head(stmts), n)
    THEN build_expr(Head(stmts).inner[2]).val.items \o Declared(n, Tail(stmts))
    ELSE Declared(n, Tail(stmts))

NotAnArray(pair) ==
    pair.rule = "const_rule" /\ build_expr(pair.inner[2]).val.j # "Array"

\* C18: const-rule concatenation: when parsed_to_json returns Ok, the
\* const_rules object has exactly the declared names, and under each name
\* the concatenation in source order of the arrays of the declarations of
\* that name, whatever other statements lie between them; a const rule
\* whose data is not an array makes parsed_to_json return an error.
C18_ConstRulesConcatenated ==
    /\ qResult.tag = "Ok" =>
          LET cr == qResult.val.obj[S("const_rules")]
          IN  /\ cr.j = "Object"
              /\ DOMAIN cr.obj =
                    {n \in ConstNames :
                        \E i \in DOMAIN qSeen : IsConstRule(qSeen[i], n)}
              /\ \A n \in DOMAIN cr.obj : cr.obj[n] = JArray(Declared(n, qSeen))
    /\ (\E i \in DOMAIN qSeen : NotAnArray(qSeen[i])) =>
          /\ qPc = "done"
          /\ qResult.tag = "Err"
          /\ qResult.err = "expect const rules to be specified as an array"

\* C18 witness: x = [1], y = [1], x = [?b,1] gives x three entries and y
\* one.
C18_Witness ==
    /\ qResult.tag = "Ok"
    /\ Len(qSeen) = 3
    /\ IsConstRule(qSeen[1], <<"x">>)
    /\ IsConstRule(qSeen[2], <<"y">>)
    /\ IsConstRule(qSeen[3], <<"x">>)
    /\ Len(qResult.val.obj[S("const_rules")].obj[<<"x">>].items) = 3
    /\ Len(qResult.val.obj[S("const_rules")].obj[<<"y">>].items) = 1

\* C20: all-or-nothing output of degree centrality: every out.put happens
\* after the input iterator has been consumed to its end without error, so
\* while the output store is non-empty run is in its second loop or has
\* returned Ok, and when run returns an error (wrong number of relations,
\* a tuple of width < 2, an iterator error at any position) out.put has
\* never been called and the output store is as it was.
C20_AllOrNothing ==
    /\ outStore # <<>> =>
          /\ dcPc \in {"emit", "done"}
          /\ dcResult \in {"none", "Ok"}
          /\ nrels = 1
          /\ AllWide
    /\ dcResult \notin {"none", "Ok"} => outStore = <<>>

\* C20 witness: run fails on its third pull, with two tuples already
\* counted, and nothing has been put.
C20_Witness ==
    /\ dcPc = "done"
    /\ dcResult \in {"TupleWidth", "StorageError", "Cancelled"}
    /\ Len(consumed) >= 2
    /\ counter # EmptyCounter
    /\ outStore = <<>>

\* the options of a script: the key and the rule of its statements
OptionRules ==
    {<<S("limit"), "limit_option">>, <<S("offset"), "offset_option">>,
     <<S("sort"), "sort_option">>, <<S("out"), "out_option">>}

\* the index of the last statement of the given rule
LastOf(rule, stmts) ==
    Max({i \in DOMAIN stmts : stmts[i].rule = rule})

\* the value an option statement declares
Declares(pair) ==
    CASE pair.rule \in {"limit_option", "offset_option"} ->
            JInt(DigitsToNat(StripUnderscores(pair.inner[1].str), 10))
      [] pair.rule = "sort_option" -> JArray(SortParts(pair.inner, <<>>).val)
      [] pair.rule = "out_option" -> parse_out_option(pair.inner[1]).val

\* the rules of the statements, in source order
RECURSIVE RulesOf(_)
RulesOf(stmts) ==
    IF stmts = <<>> THEN <<>>
    ELSE IF Head(stmts).rule = "rule"
    THEN <<parse_rule(Head(stmts)).val>> \o RulesOf(Tail(stmts))
    ELSE RulesOf(Tail(stmts))

\* C21: top-level AST shape: when parsed_to_json returns Ok, the result is
\* an object that has q, the array of the rules in source order (empty
\* when there is none), and const_rules, an object (empty when there is no
\* const rule); each of limit, offset, sort and out is a key exactly when
\* the script declares that option, and then holds the value of the last
\* declaration; there is no other key.
C21_TopLevelShape ==
    qResult.tag = "Ok" =>
        LET obj      == qResult.val.obj
            declared == {o \in OptionRules :
                            \E i \in DOMAIN qSeen : qSeen[i].rule = o[2]}
        IN  /\ qResult.val.j = "Object"
            /\ DOMAIN obj =
                  {S("q"), S("const_rules")} \cup {o[1] : o \in declared}
            /\ obj[S("q")] = JArray(RulesOf(qSeen))
            /\ obj[S("const_rules")].j = "Object"
            /\ (\A i \in DOMAIN qSeen : qSeen[i].rule # "const_rule") =>
                  DOMAIN obj[S("const_rules")].obj = {}
            /\ \A o \in declared :
                  obj[o[1]] = Declares(qSeen[LastOf(o[2], qSeen)])

\* C21 witness: limit 1, rule s, limit 1_0: q holds the rule s, limit is
\* 10, const_rules is empty and offset, sort and out are absent.
C21_Witness ==
    /\ qResult.tag = "Ok"
    /\ Len(qSeen) = 3
    /\ qSeen[1].rule = "limit_option" /\ qSeen[1].inner[1].str = <<"1">>
    /\ qSeen[2] = RulePairOf(<<"s">>)
    /\ qSeen[3].rule = "limit_option" /\ qSeen[3].inner[1].str # <<"1">>
    /\ qResult.val.obj[S("limit")] = JInt(10)
    /\ Len(qResult.val.obj[S("q")].items) = 1
    /\ qResult.val.obj[S("q")].items[1].obj[S("rule")] = JString(<<"s">>)
    /\ DOMAIN qResult.val.obj = {S("q"), S("const_rules"), S("limit")}

----------------------------------------------------------------------------
(* Specifications *)

ValParked ==
    /\ vOp = "parked"
    /\ vA = <<>>
    /\ vB = <<>>
    /\ vRes = <<>>

ExprParked ==
    /\ eIn = ExprIn("parked", <<>>, NoPair)
    /\ eValue = NoRes
    /\ eJson = NoRes

QueryParked ==
    /\ qPc = "parked"
    /\ qSeen = <<>>
    /\ qMap = QMap(<<>>, <<>>, <<>>)
    /\ qResult = NoRes

PullParked ==
    /\ pIn = NoPair
    /\ pOut = Res("Parked", "", <<>>)

LangParked == ValParked /\ ExprParked /\ QueryParked /\ PullParked

DegreeInit == DCInit /\ ChainParked /\ JoinParked /\ FromParked /\ LangParked

DegreeNext ==
    \/ DCBegin /\ UNCHANGED <<chainVars, joinVars, fromVars, langVars>>
    \/ DCNext /\ UNCHANGED <<chainVars, joinVars, fromVars, langVars>>
    \/ DCEmit /\ UNCHANGED <<chainVars, joinVars, fromVars, langVars>>
    \/ DCReturn /\ UNCHANGED <<chainVars, joinVars, fromVars, langVars>>
    \/ Cancel /\ UNCHANGED <<chainVars, joinVars, fromVars, langVars>>

SpecDegree == DegreeInit /\ [][DegreeNext]_vars

DCParked ==
    /\ dcPc = "parked"
    /\ nrels = -1
    /\ iterated = FALSE
    /\ consumed = <<>>
    /\ counter = EmptyCounter
    /\ pending = EmptyCounter
    /\ outStore = <<>>
    /\ dcResult = "none"
    /\ cancelFlag = FALSE

ChainSpecInit ==
    ChainInit /\ DCParked /\ JoinParked /\ FromParked /\ LangParked

ChainNext == ParseChainCall /\ UNCHANGED <<dcVars, joinVars, fromVars, langVars>>

SpecChain == ChainSpecInit /\ [][ChainNext]_vars

JoinSpecInit ==
    JoinInit /\ DCParked /\ ChainParked /\ FromParked /\ LangParked

JoinNext == JoinConditionsCall /\ UNCHANGED <<dcVars, chainVars, fromVars, langVars>>

SpecJoin == JoinSpecInit /\ [][JoinNext]_vars

FromSpecInit ==
    FromInit /\ DCParked /\ ChainParked /\ JoinParked /\ LangParked

FromNext ==
    \/ FromBegin /\ UNCHANGED <<dcVars, chainVars, joinVars, langVars>>
    \/ FromLoop /\ UNCHANGED <<dcVars, chainVars, joinVars, langVars>>
    \/ FromReturn /\ UNCHANGED <<dcVars, chainVars, joinVars, langVars>>

SpecFrom == FromSpecInit /\ [][FromNext]_vars

OthersParked == DCParked /\ ChainParked /\ JoinParked /\ FromParked

OthersUnchanged == UNCHANGED <<dcVars, chainVars, joinVars, fromVars>>

ValueSpecInit ==
    ValInit /\ OthersParked /\ ExprParked /\ QueryParked /\ PullParked

ValueNext ==
    \/ CmpCall /\ OthersUnchanged /\ UNCHANGED <<exprVars, queryVars, pullVars>>
    \/ FmtParseCall /\ OthersUnchanged
          /\ UNCHANGED <<exprVars, queryVars, pullVars>>

SpecValue == ValueSpecInit /\ [][ValueNext]_vars

ExprSpecInit ==
    ExprInit /\ OthersParked /\ ValParked /\ QueryParked /\ PullParked

ExprNext ==
    \/ ExprCall /\ OthersUnchanged /\ UNCHANGED <<valVars, queryVars, pullVars>>
    \/ PrimaryCall /\ OthersUnchanged
          /\ UNCHANGED <<valVars, queryVars, pullVars>>

SpecExpr == ExprSpecInit /\ [][ExprNext]_vars

PullSpecInit ==
    PullInit /\ OthersParked /\ ValParked /\ ExprParked /\ QueryParked

PullNext ==
    PullArgCall /\ OthersUnchanged /\ UNCHANGED <<valVars, exprVars, queryVars>>

SpecPull == PullSpecInit /\ [][PullNext]_vars

QuerySpecInit ==
    QInit /\ OthersParked /\ ValParked /\ ExprParked /\ PullParked

QueryNext ==
    \/ QStatement /\ OthersUnchanged /\ UNCHANGED <<valVars, exprVars, pullVars>>
    \/ QReturn /\ OthersUnchanged /\ UNCHANGED <<valVars, exprVars, pullVars>>

SpecQuery == QuerySpecInit /\ [][QueryNext]_vars

====
